---- MODULE Spec2Model ----
(***************************************************************************)
(* State-machine model of the PHP Booster integration-test harness:        *)
(*   tools/internal-test/lib/*.py        (the modular harness, "lib")      *)
(*   tools/internal-test/test-integration.py (the standalone script)       *)
(* One process run executes one action; the environment (target directory, *)
(* its files, the DDEV runtime, the git repository) outlives the runs and  *)
(* may also be changed by others between any two steps.                    *)
(***************************************************************************)
EXTENDS Integers, Sequences, FiniteSets, TLC

VARIABLES
    env,       \* the observable environment (see EnvInit)
    script,    \* which program the current run executes: "lib", "standalone", "api"
    action,    \* the action name given to the run
    pc,        \* "idle" (no process), "running", "done" (process has ended)
    ip,        \* index of the next step in the action's procedure
    trace,     \* the steps the current run has executed, with what they saw and did
    muts,      \* the mutating operations the current run has performed, in order
    msgs,      \* the messages of interest the current run has printed
    exitCode,  \* exit status of the ended process
    prev,      \* what the previous run was and how it left the environment
    nruns,     \* number of runs started
    nchanges,  \* number of changes made to the environment by others
    touched    \* the environment was changed by others since the previous run ended

vars == <<env, script, action, pc, ip, trace, muts, msgs, exitCode, prev,
          nruns, nchanges, touched>>

\* ---------------------------------------------------------------- bounds
MaxRuns == 2
MaxEnvChanges == 1

\* ------------------------------------------------------------ file names
Composer == "composer.json"
Stamp == ".booster-version"
FallbackPair == {".husky/shared/utils.ts", ".husky/commit-msg.ts"}
DdevConfig == ".ddev/config.yaml"
TestFile1 == "test_commit.php"
TestFile2 == "test_commit2.php"

expected_files ==
    << "tools/git-hooks/hooks/commit-msg",
       "tools/git-hooks/hooks/pre-commit",
       "tools/git-hooks/hooks/pre-push",
       "tools/git-hooks/hooks/commit-msg.ts",
       "tools/git-hooks/hooks/pre-commit.ts",
       "tools/git-hooks/hooks/pre-push.ts",
       "tools/git-hooks/shared/utils.ts",
       "validate-branch-name.config.cjs",
       "package.json",
       "renovate.json" >>

WorkflowsDir == ".github/workflows"
ActionsDir == ".github/actions/php-auto-fix"
WorkflowFile == ".github/workflows/php-auto-fix-simple.yml"
ActionFile == ".github/actions/php-auto-fix/action.yml"

expected_hooks == <<"commit-msg", "pre-commit", "pre-push">>

Range(s) == {s[i] : i \in 1..Len(s)}

\* ----------------------------------------------------------- environment
NoHooks == [h \in Range(expected_hooks) |-> "absent"]
AllHooks == [h \in Range(expected_hooks) |-> "file"]

\* The environment of the target directory before anything was set up: no
\* directory, the runtime not started.
EnvInit ==
    [ dir |-> FALSE,            \* the target directory exists
      files |-> {},             \* the paths that exist under it
      ddev |-> "down",          \* "down": `ddev status` exits non-zero;
                                \* "silent": exits 0 without an indicator token;
                                \* "up": exits 0 and prints an indicator token
      git |-> "none",           \* "none", "empty" (initialised), "committed"
      branch |-> "none",        \* "none", "default", "feature", "invalid"
      staged |-> {},            \* the test files staged in the index
      tcommitted |-> {},        \* the test files committed on their test branch
      hooks |-> NoHooks,        \* .git/hooks entries: "absent", "file", "dir"
      stamp |-> <<>>,           \* the text of the version stamp
      stampReadable |-> TRUE,   \* reading the version stamp succeeds
      dirty |-> FALSE ]         \* the repository has changes that are not
                                \* committed, other than the test files

\* shutil.rmtree(target_dir): everything under the directory goes with it.
RmTree(e) ==
    [e EXCEPT !.dir = FALSE, !.files = {}, !.git = "none", !.branch = "none",
              !.staged = {}, !.tcommitted = {}, !.hooks = NoHooks,
              !.stamp = <<>>, !.stampReadable = TRUE, !.dirty = FALSE]

\* ------------------------------------------------------- StateDetector
\* (mutant) a StateDetector that keeps the first answer it gave in this process.
is_project_created_cached(e) ==
    LET seen == {i \in 1..Len(trace) : "proj" \in DOMAIN trace[i].obs}
    IN  IF seen # {}
        THEN trace[CHOOSE i \in seen : \A j \in seen : i <= j].obs.proj
        ELSE e.dir /\ Composer \in e.files

\* (mutant) a project recognised by the version stamp as well.
is_project_created_any_marker(e) ==
    e.dir /\ (Composer \in e.files \/ Stamp \in e.files)

is_project_created(e) == e.dir /\ Composer \in e.files

\* Text is a sequence of one-character strings.  str.lower() on the
\* letters; every other character is kept.
UpperToLower ==
    ("A" :> "a") @@ ("B" :> "b") @@ ("C" :> "c") @@ ("D" :> "d") @@
    ("E" :> "e") @@ ("F" :> "f") @@ ("G" :> "g") @@ ("H" :> "h") @@
    ("I" :> "i") @@ ("J" :> "j") @@ ("K" :> "k") @@ ("L" :> "l") @@
    ("M" :> "m") @@ ("N" :> "n") @@ ("O" :> "o") @@ ("P" :> "p") @@
    ("Q" :> "q") @@ ("R" :> "r") @@ ("S" :> "s") @@ ("T" :> "t") @@
    ("U" :> "u") @@ ("V" :> "v") @@ ("W" :> "w") @@ ("X" :> "x") @@
    ("Y" :> "y") @@ ("Z" :> "z")

Lower(s) ==
    [i \in 1..Len(s) |-> IF s[i] \in DOMAIN UpperToLower THEN UpperToLower[s[i]]
                         ELSE s[i]]

\* `t in s` for strings.
Contains(s, t) ==
    \E i \in 0..(Len(s) - Len(t)) : SubSeq(s, i + 1, i + Len(t)) = t

running_indicators ==
    << <<"o", "k">>,
       <<"r", "u", "n", "n", "i", "n", "g">>,
       <<"h", "e", "a", "l", "t", "h", "y">>,
       <<"p", "r", "o", "j", "e", "c", "t", ":">>,
       <<"s", "e", "r", "v", "i", "c", "e">>,
       <<"d", "o", "c", "k", "e", "r", " ", "p", "l", "a", "t", "f", "o",
         "r", "m", ":">> >>

\* What `ddev status` does in each state of the runtime (the field ddev of
\* the environment): whether spawning it raises, its exit status and what
\* it prints.  "down", "silent" and "up" are the states the harness moves
\* the runtime through; the others are further ways the command can answer.
DdevStatus ==
    ("down" :> [raises |-> FALSE, returncode |-> 1,
        stdout |-> <<>>]) @@
    ("silent" :> [raises |-> FALSE, returncode |-> 0,
        stdout |-> <<"p", "a", "u", "s", "e", "d">>]) @@
    ("up" :> [raises |-> FALSE, returncode |-> 0,
        stdout |-> <<"O", "K">>]) @@
    ("unrunnable" :> [raises |-> TRUE, returncode |-> 0,
        stdout |-> <<>>]) @@
    ("failing" :> [raises |-> FALSE, returncode |-> 1,
        stdout |-> <<"o", "k", " ", "r", "u", "n", "n", "i", "n", "g">>]) @@
    ("empty" :> [raises |-> FALSE, returncode |-> 0,
        stdout |-> <<>>]) @@
    ("apart" :> [raises |-> FALSE, returncode |-> 0,
        stdout |-> <<"o", " ", "k">>]) @@
    ("running" :> [raises |-> FALSE, returncode |-> 0,
        stdout |-> <<"R", "u", "n", "n", "i", "n", "g">>]) @@
    ("healthy" :> [raises |-> FALSE, returncode |-> 0,
        stdout |-> <<"h", "e", "a", "l", "t", "h", "y">>]) @@
    ("project" :> [raises |-> FALSE, returncode |-> 0,
        stdout |-> <<"P", "r", "o", "j", "e", "c", "t", ":", " ", "x">>]) @@
    ("service" :> [raises |-> FALSE, returncode |-> 0,
        stdout |-> <<"S", "E", "R", "V", "I", "C", "E">>]) @@
    ("platform" :> [raises |-> FALSE, returncode |-> 0,
        stdout |-> <<"D", "o", "c", "k", "e", "r", " ", "P", "l", "a", "t",
                   "f", "o", "r", "m", ":", " ", "x">>])

\* The commands is_ddev_running spawns.
is_ddev_running_cmds(e) == IF ~e.dir THEN <<>> ELSE <<"ddev status">>

\* (mutant) the indicators looked for in the output as printed.
is_ddev_running_as_printed(e) ==
    IF ~e.dir THEN FALSE
    ELSE LET result == DdevStatus[e.ddev]
         IN  IF result.raises THEN FALSE
             ELSE IF result.returncode = 0
             THEN \E k \in 1..Len(running_indicators) :
                     Contains(result.stdout, running_indicators[k])
             ELSE FALSE

is_ddev_running(e) ==
    IF ~e.dir THEN FALSE
    ELSE LET result == DdevStatus[e.ddev]
         IN  IF result.raises THEN FALSE          \* except Exception
             ELSE IF result.returncode = 0
             THEN LET output == Lower(result.stdout)
                  IN  \E k \in 1..Len(running_indicators) :
                         Contains(output, running_indicators[k])
             ELSE FALSE

\* (mutant) one file of the fallback pair being enough.
is_booster_integrated_either(e) ==
    IF Stamp \in e.files THEN TRUE
    ELSE FallbackPair \cap e.files # {}

is_booster_integrated(e) ==
    IF Stamp \in e.files THEN TRUE
    ELSE FallbackPair \subseteq e.files

Whitespace == {" ", "\n", "\t"}

RECURSIVE LStrip(_)
LStrip(s) == IF s # <<>> /\ Head(s) \in Whitespace THEN LStrip(Tail(s)) ELSE s

RECURSIVE RStrip(_)
RStrip(s) ==
    IF s # <<>> /\ s[Len(s)] \in Whitespace THEN RStrip(SubSeq(s, 1, Len(s) - 1))
    ELSE s

Strip(s) == RStrip(LStrip(s))

None == [some |-> FALSE, val |-> <<>>]
Some(v) == [some |-> TRUE, val |-> v]

\* (mutant) the content of the stamp returned as read.
get_integrated_version_as_read(e) ==
    IF Stamp \in e.files
    THEN IF e.stampReadable THEN Some(e.stamp) ELSE None
    ELSE None

get_integrated_version(e) ==
    IF Stamp \in e.files
    THEN IF e.stampReadable THEN Some(Strip(e.stamp)) ELSE None
    ELSE None

\* (mutant) any kind of entry counting as a hook.
has_git_hooks_any_entry(e) ==
    IF e.git = "none" THEN FALSE
    ELSE \A h \in Range(expected_hooks) : e.hooks[h] # "absent"

has_git_hooks(e) ==
    IF e.git = "none" THEN FALSE     \* .git/hooks does not exist
    ELSE \A h \in Range(expected_hooks) : e.hooks[h] = "file"

\* ------------------------------------------------- results of a step
\* outcome: "ok" (returned None), "True"/"False" (returned a bool),
\*          "exit1" (sys.exit(1)), "raise" (an exception left the step)
R(outcome, e, m, g, o) ==
    [outcome |-> outcome, env |-> e, muts |-> m, msgs |-> g, obs |-> o]

Fatal == {"exit1", "exit2", "raise"}

\* Effect of one successful external operation on the environment.
Effect(e, op) ==
    CASE op = "mkdir" -> [e EXCEPT !.dir = TRUE]
      [] op = "ddev config" ->
            [e EXCEPT !.files = @ \cup {DdevConfig}, !.dirty = @ \/ e.git # "none"]
      [] op = "ddev start" -> [e EXCEPT !.ddev = "up"]
      [] op = "ddev stop" -> [e EXCEPT !.ddev = "down"]
      [] op = "ddev delete" -> [e EXCEPT !.ddev = "down"]
      [] op = "composer create-project" ->
            [e EXCEPT !.files = @ \cup {Composer}, !.dirty = @ \/ e.git # "none"]
      [] op = "git init" ->
            [e EXCEPT !.git = IF @ = "none" THEN "empty" ELSE @,
                      !.branch = IF @ = "none" THEN "default" ELSE @,
                      !.dirty = @ \/ e.files # {}]
      [] op = "git commit" ->
            [e EXCEPT !.git = "committed", !.staged = {}, !.dirty = FALSE]
      [] op = "rmtree" -> RmTree(e)
      [] OTHER -> e

\* The operations ops[1..n] applied in order.
RECURSIVE RunOps(_, _, _)
RunOps(e, ops, n) ==
    IF n = 0 THEN e ELSE Effect(RunOps(e, ops, n - 1), ops[n])

\* ------------------------------------------------- EnvironmentChecker
check_environment(e) == R("ok", e, <<>>, {}, [x \in {} |-> FALSE])

required_commands == <<"ddev", "git">>

\* (mutant) check_requirements giving up at the first missing command.
check_requirements_first_miss(e, avail, dockerRc, ddevRc) ==
    LET missing == SelectSeq(required_commands, LAMBDA c : c \notin avail)
        first == IF missing = <<>> THEN missing ELSE <<Head(missing)>>
    IN  IF first # <<>>
        THEN R("exit1", e, <<>>, {"Missing required commands"}, [missing |-> first])
        ELSE IF dockerRc # 0
        THEN R("exit1", e, <<>>, {"Docker not working"}, [missing |-> first])
        ELSE IF ddevRc # 0
        THEN R("exit1", e, <<>>, {"Cannot determine DDEV version"}, [missing |-> first])
        ELSE R("ok", e, <<>>, {"All requirements satisfied"}, [missing |-> first])

\* avail: the commands found in PATH; dockerRc: exit of `docker version`;
\* ddevRc: exit of `ddev version`.  composer on the host is looked for and
\* only reported.
check_requirements(e, avail, dockerRc, ddevRc) ==
    LET missing == SelectSeq(required_commands, LAMBDA c : c \notin avail)
        host == IF "composer" \in avail THEN {"composer is available (host)"}
                ELSE {"composer not found on host"}
    IN  IF missing # <<>>
        THEN R("exit1", e, <<>>, host \cup {"Missing required commands"},
               [missing |-> missing])
        ELSE IF dockerRc # 0
        THEN R("exit1", e, <<>>, host \cup {"Docker not working"},
               [missing |-> missing])
        ELSE IF ddevRc # 0
        THEN R("exit1", e, <<>>, host \cup {"Cannot determine DDEV version"},
               [missing |-> missing])
        ELSE R("ok", e, <<>>, host \cup {"All requirements satisfied"},
               [missing |-> missing])

\* ------------------------------------------------------- ProjectSetup
ProjectTypes == {"laravel", "symfony"}

GitInitCmds ==
    <<"git init", "git config user.name", "git config user.email",
      "git add .", "git commit">>

setup_symfony_cmds ==
    <<"ddev config", "ddev start", "composer create-project",
      "composer require webapp">> \o GitInitCmds

setup_laravel_cmds ==
    <<"ddev config", "ddev start", "composer create-project">> \o GitInitCmds

SetupCmds(ptype) ==
    IF ptype = "symfony" THEN setup_symfony_cmds ELSE setup_laravel_cmds

\* (mutant) setup_project without the project-exists guard.
setup_project_overwrite(e, ptype, failAt) ==
    LET cmds == SetupCmds(ptype)
        e1 == Effect(e, "mkdir")
        failed == failAt \in 1..Len(cmds)
        nOk == IF failed THEN failAt - 1 ELSE Len(cmds)
        nRun == IF failed THEN failAt ELSE Len(cmds)
    IN  R(IF failed THEN "raise" ELSE "ok",
          RunOps(e1, cmds, nOk),
          <<"mkdir">> \o SubSeq(cmds, 1, nRun),
          IF failed THEN {"Command failed"} ELSE {"Project setup complete"},
          [proj |-> e.dir /\ Composer \in e.files])

\* (mutant) setup_project running its commands with check=False.
setup_project_ignore_failures(e, ptype, failAt) ==
    IF is_project_created(e)
    THEN R("exit1", e, <<>>, {"Project already exists"}, [proj |-> TRUE])
    ELSE R("ok", RunOps(Effect(e, "mkdir"), SetupCmds(ptype), Len(SetupCmds(ptype))),
           <<"mkdir">> \o SetupCmds(ptype), {"Project setup complete"},
           [proj |-> FALSE])

\* failAt: the index of the first command that exits non-zero (0: none does).
\* run_command(check=True) raises CalledProcessError there, which nothing in
\* setup_project catches.
setup_project(e, ptype, failAt) ==
    IF is_project_created(e)
    THEN R("exit1", e, <<>>, {"Project already exists"}, [proj |-> TRUE])
    ELSE LET cmds == SetupCmds(ptype)
             e1 == Effect(e, "mkdir")
             failed == failAt \in 1..Len(cmds)
             nOk == IF failed THEN failAt - 1 ELSE Len(cmds)
             nRun == IF failed THEN failAt ELSE Len(cmds)
         IN  R(IF failed THEN "raise" ELSE "ok",
               RunOps(e1, cmds, nOk),
               <<"mkdir">> \o SubSeq(cmds, 1, nRun),
               IF failed THEN {"Command failed"} ELSE {"Project setup complete"},
               [proj |-> FALSE])

\* (mutant) setup_resume that also initialises the repository.
setup_resume_finish_git(e, startRc) ==
    IF ~is_project_created(e)
    THEN R("exit1", e, <<>>, {"No project found"}, [proj |-> FALSE])
    ELSE R("ok", RunOps(e, <<"ddev start">> \o GitInitCmds, 1 + Len(GitInitCmds)),
           <<"ddev start">> \o GitInitCmds, {"Project resumed successfully"},
           [proj |-> TRUE, ddev |-> is_ddev_running(e)])

\* (mutant) setup_resume starting the runtime without looking at it.
setup_resume_always_start(e, startRc) ==
    IF ~is_project_created(e)
    THEN R("exit1", e, <<>>, {"No project found"}, [proj |-> FALSE])
    ELSE IF startRc # 0
    THEN R("raise", e, <<"ddev start">>, {"Command failed"},
           [proj |-> TRUE, ddev |-> is_ddev_running(e)])
    ELSE R("ok", Effect(e, "ddev start"), <<"ddev start">>,
           {"Project resumed successfully"},
           [proj |-> TRUE, ddev |-> is_ddev_running(e)])

setup_resume(e, startRc) ==
    IF ~is_project_created(e)
    THEN R("exit1", e, <<>>, {"No project found"}, [proj |-> FALSE])
    ELSE IF is_ddev_running(e)
    THEN R("ok", e, <<>>, {"DDEV is already running"}, [proj |-> TRUE, ddev |-> TRUE])
    ELSE IF startRc # 0
    THEN R("raise", e, <<"ddev start">>, {"Command failed"},
           [proj |-> TRUE, ddev |-> FALSE])
    ELSE R("ok", Effect(e, "ddev start"), <<"ddev start">>,
           {"Project resumed successfully"}, [proj |-> TRUE, ddev |-> FALSE])

\* ------------------------------------------------- BoosterIntegration
\* What the external integration script may leave behind.  The script is a
\* collaborator, not part of the harness: it may write the whole current
\* layout, the current layout without renovate.json, the layout of the
\* previous generation (no stamp, the .husky pair), or nothing.
CurrentLayout ==
    Range(expected_files) \cup
    {Stamp, WorkflowsDir, ActionsDir, WorkflowFile, ActionFile}

ScriptWrites == {"full", "partial", "legacy", "nothing"}

StampText == <<"1", ".", "0", "\n">>

ScriptEffect(e, w) ==
    LET written ==
            CASE w = "full" ->
                    [e EXCEPT !.files = @ \cup CurrentLayout, !.stamp = StampText,
                              !.hooks = IF e.git = "none" THEN @ ELSE AllHooks]
              [] w = "partial" ->
                    [e EXCEPT !.files = @ \cup (CurrentLayout \ {"renovate.json"}),
                              !.stamp = StampText]
              [] w = "legacy" -> [e EXCEPT !.files = @ \cup FallbackPair]
              [] OTHER -> e
    IN  IF written # e /\ e.git # "none" THEN [written EXCEPT !.dirty = TRUE]
        ELSE written

ModeFlag(interactive_mode) ==
    IF interactive_mode THEN "integrate_booster.sh -I" ELSE "integrate_booster.sh -N"

\* The environment overrides and the argument vector of the script.
script_overrides == {"BOOSTER_LOCAL_DEV", "BOOSTER_LOCAL_PATH"}

script_argv(interactive_mode) ==
    <<"bash", "integrate_booster.sh">>
        \o (IF interactive_mode THEN <<"-I">> ELSE <<"-N">>)

\* One run_command of the script: how it was spawned and how it ended.
Spawned(interactive_mode, rc) ==
    [argv |-> script_argv(interactive_mode), overrides |-> script_overrides,
     returncode |-> rc]

\* (mutant) integrate_booster not asking whether the runtime is up.
integrate_booster_no_runtime_check(e, interactive_mode, rc, w) ==
    IF ~is_project_created(e)
    THEN R("exit1", e, <<>>, {"No project found"}, [proj |-> FALSE])
    ELSE LET integ == is_booster_integrated(e)
             o == [proj |-> TRUE, ddev |-> is_ddev_running(e), integ |-> integ,
                   interactive_mode |-> interactive_mode,
                   spawned |-> <<Spawned(interactive_mode, rc)>>]
             cmd == <<ModeFlag(interactive_mode)>>
         IN  IF rc = 0
             THEN R("True", ScriptEffect(e, w), cmd, {"Booster integration complete"}, o)
             ELSE R("False", ScriptEffect(e, w), cmd, {"Integration failed"}, o)

\* (mutant) integrate_booster returning at once when already integrated.
integrate_booster_skip_integrated(e, interactive_mode, rc, w) ==
    IF ~is_project_created(e)
    THEN R("exit1", e, <<>>, {"No project found"}, [proj |-> FALSE])
    ELSE IF ~is_ddev_running(e)
    THEN R("exit1", e, <<>>, {"DDEV not running"}, [proj |-> TRUE, ddev |-> FALSE])
    ELSE IF is_booster_integrated(e)
    THEN R("True", e, <<>>, {"Booster already appears to be integrated"},
           [proj |-> TRUE, ddev |-> TRUE, integ |-> TRUE,
            interactive_mode |-> interactive_mode, spawned |-> <<>>])
    ELSE LET o == [proj |-> TRUE, ddev |-> TRUE, integ |-> FALSE,
                   interactive_mode |-> interactive_mode,
                   spawned |-> <<Spawned(interactive_mode, rc)>>]
             cmd == <<ModeFlag(interactive_mode)>>
         IN  IF rc = 0
             THEN R("True", ScriptEffect(e, w), cmd, {"Booster integration complete"}, o)
             ELSE R("False", ScriptEffect(e, w), cmd, {"Integration failed"}, o)

\* rc: exit status of `bash integrate_booster.sh <flag>`; w: what it wrote.
integrate_booster(e, interactive_mode, rc, w) ==
    IF ~is_project_created(e)
    THEN R("exit1", e, <<>>, {"No project found"}, [proj |-> FALSE])
    ELSE IF ~is_ddev_running(e)
    THEN R("exit1", e, <<>>, {"DDEV not running"}, [proj |-> TRUE, ddev |-> FALSE])
    ELSE LET integ == is_booster_integrated(e)
             o == [proj |-> TRUE, ddev |-> TRUE, integ |-> integ,
                   interactive_mode |-> interactive_mode,
                   spawned |-> <<Spawned(interactive_mode, rc)>>]
             warn == IF integ THEN {"Booster already appears to be integrated"} ELSE {}
             cmd == <<ModeFlag(interactive_mode)>>
         IN  IF rc = 0
             THEN R("True", ScriptEffect(e, w), cmd,
                    warn \cup {"Booster integration complete"}, o)
             ELSE R("False", ScriptEffect(e, w), cmd,
                    warn \cup {"Integration failed"}, o)

\* ------------------------------------------------- IntegrationVerifier
\* ---- renovate.json as json.load returns it
\* A JSON value: k is its kind; a string carries its characters, a list its
\* items, an object its keys and members.  PyError stands for an exception
\* raised while an expression was evaluated.
JValue(k, s, items, keys, members) ==
    [k |-> k, s |-> s, items |-> items, keys |-> keys, members |-> members]

JNull == JValue("null", <<>>, <<>>, {}, <<>>)
JTrue == JValue("bool", <<>>, <<>>, {}, <<>>)
JNum == JValue("num", <<>>, <<>>, {}, <<>>)
JStr(s) == JValue("str", s, <<>>, {}, <<>>)
JList(items) == JValue("list", <<>>, items, {}, <<>>)
JObj(members) == JValue("obj", <<>>, <<>>, DOMAIN members, members)
JEmptyObj == JValue("obj", <<>>, <<>>, {}, <<>>)
PyError == JValue("error", <<>>, <<>>, {}, <<>>)

\* The string literals of _verify_renovate_config, as characters.
Chars ==
    ("$schema" :>
        <<"$", "s", "c", "h", "e", "m", "a">>) @@
    ("extends" :>
        <<"e", "x", "t", "e", "n", "d", "s">>) @@
    ("config:base" :>
        <<"c", "o", "n", "f", "i", "g", ":", "b", "a", "s", "e">>) @@
    ("packageRules" :>
        <<"p", "a", "c", "k", "a", "g", "e", "R", "u", "l", "e", "s">>) @@
    ("automerge" :>
        <<"a", "u", "t", "o", "m", "e", "r", "g", "e">>) @@
    ("matchUpdateTypes" :>
        <<"m", "a", "t", "c", "h", "U", "p", "d", "a", "t", "e", "T", "y", "p",
        "e", "s">>) @@
    ("minor" :>
        <<"m", "i", "n", "o", "r">>) @@
    ("matchDepTypes" :>
        <<"m", "a", "t", "c", "h", "D", "e", "p", "T", "y", "p", "e", "s">>) @@
    ("devDependencies" :>
        <<"d", "e", "v", "D", "e", "p", "e", "n", "d", "e", "n", "c", "i", "e",
        "s">>) @@
    ("matchPackagePatterns" :>
        <<"m", "a", "t", "c", "h", "P", "a", "c", "k", "a", "g", "e", "P", "a",
        "t", "t", "e", "r", "n", "s">>) @@
    ("groupName" :>
        <<"g", "r", "o", "u", "p", "N", "a", "m", "e">>) @@
    ("PHP dependencies" :>
        <<"P", "H", "P", " ", "d", "e", "p", "e", "n", "d", "e", "n", "c", "i",
        "e", "s">>)

\* `x in c` of Python: "T", "F", or "E" when it raises TypeError.
PyIn(x, c) ==
    CASE c.k = "obj" -> IF x \in c.keys THEN "T" ELSE "F"
      [] c.k = "list" ->
            IF \E i \in 1..Len(c.items) :
                  c.items[i].k = "str" /\ c.items[i].s = Chars[x]
            THEN "T" ELSE "F"
      [] c.k = "str" -> IF Contains(c.s, Chars[x]) THEN "T" ELSE "F"
      [] OTHER -> "E"

\* c.get(key, []): AttributeError unless c is an object.
PyGet(c, key) ==
    IF c.k = "obj" THEN IF key \in c.keys THEN c.members[key] ELSE JList(<<>>)
    ELSE PyError

\* c[key]: TypeError or KeyError unless c is an object with that key.
PyIndex(c, key) ==
    IF c.k = "obj" /\ key \in c.keys THEN c.members[key] ELSE PyError

Not3(v) == CASE v = "T" -> "F" [] v = "F" -> "T" [] OTHER -> "E"

\* `a and b`, b being evaluated only when a is true.
And3(a, b) == IF a = "T" THEN b ELSE a

\* any(...) over the values the generator yields: the first that is not false
\* decides.
Any3(vals) ==
    LET hit == {i \in 1..Len(vals) : vals[i] # "F"}
    IN  IF hit = {} THEN "F"
        ELSE vals[CHOOSE i \in hit : \A j \in hit : i <= j]

has_automerge(rule) ==
    And3(PyIn("automerge", rule),
         And3(PyIn("matchUpdateTypes", rule),
              PyIn("minor", PyGet(rule, "matchUpdateTypes"))))

has_dev_deps(rule) ==
    And3(PyIn("matchDepTypes", rule),
         PyIn("devDependencies", PyGet(rule, "matchDepTypes")))

has_php_deps(rule) ==
    And3(PyIn("matchPackagePatterns", rule),
         And3(PyIn("groupName", rule),
              LET g == PyIndex(rule, "groupName")
              IN  IF g.k = "error" THEN "E"
                  ELSE IF g.k = "str" /\ g.s = Chars["PHP dependencies"] THEN "T"
                  ELSE "F"))

\* The contents renovate.json may have: whether json.load parses it and the
\* value it gives.  "valid" is the file the booster ships, "invalid" is not
\* JSON; the others are further JSON documents.
AutomergeRule ==
    JObj(("automerge" :> JTrue) @@
         ("matchUpdateTypes" :> JList(<<JStr(Chars["minor"])>>)))
DevDepsRule ==
    JObj("matchDepTypes" :> JList(<<JStr(Chars["devDependencies"])>>))
PhpDepsRule ==
    JObj(("matchPackagePatterns" :> JList(<<>>)) @@
         ("groupName" :> JStr(Chars["PHP dependencies"])))

Parsed(doc) == [parses |-> TRUE, doc |-> doc]

RenovateFiles ==
    ("valid" :> Parsed(JObj(("$schema" :> JStr(<<"x">>)) @@
                            ("extends" :> JList(<<JStr(Chars["config:base"])>>)) @@
                            ("packageRules" :>
                                JList(<<AutomergeRule, DevDepsRule, PhpDepsRule>>))))) @@
    ("invalid" :> [parses |-> FALSE, doc |-> JNull]) @@
    ("empty_object" :> Parsed(JEmptyObj)) @@
    ("no_schema" :> Parsed(JObj(("extends" :> JList(<<JStr(Chars["config:base"])>>)) @@
                                ("packageRules" :>
                                    JList(<<AutomergeRule, DevDepsRule, PhpDepsRule>>))))) @@
    ("no_rules" :> Parsed(JObj(("$schema" :> JStr(<<"x">>)) @@
                               ("extends" :> JList(<<JStr(Chars["config:base"])>>)) @@
                               ("packageRules" :> JList(<<>>))))) @@
    ("one_rule" :> Parsed(JObj("packageRules" :> JList(<<DevDepsRule>>)))) @@
    ("rules_object" :> Parsed(JObj("packageRules" :> JEmptyObj))) @@
    ("extends_string" :> Parsed(JObj("extends" :> JStr(Chars["config:base"])))) @@
    ("top_list" :> Parsed(JList(<<>>))) @@
    ("top_null" :> Parsed(JNull)) @@
    ("top_number" :> Parsed(JNum)) @@
    ("top_string" :> Parsed(JStr(Chars["extends"]))) @@
    ("extends_number" :> Parsed(JObj("extends" :> JNum))) @@
    ("rule_number" :> Parsed(JObj("packageRules" :> JList(<<JNum>>)))) @@
    ("update_types_null" :>
        Parsed(JObj("packageRules" :>
            JList(<<JObj(("automerge" :> JTrue) @@ ("matchUpdateTypes" :> JNull))>>))))

\* The checks of _verify_renovate_config in program order: for each, whether
\* its warning is due ("T"), not due ("F"), or evaluating it raised ("E").
RenovateChecks(config) ==
    LET Check(v, msg) == [v |-> v, msg |-> msg]
        schema == Not3(PyIn("$schema", config))
        extends ==
            IF PyIn("extends", config) = "T"
            THEN Not3(PyIn("config:base", PyGet(config, "extends")))
            ELSE Not3(PyIn("extends", config))
        rules == PyIndex(config, "packageRules")
        packageRules ==
            IF PyIn("packageRules", config) = "T"
            THEN IF rules.k = "error" THEN "E"
                 ELSE IF rules.k = "list" THEN "F" ELSE "T"
            ELSE Not3(PyIn("packageRules", config))
    IN  << Check(schema, "renovate.json missing $schema property"),
           Check(extends, "renovate.json missing or invalid extends configuration"),
           Check(packageRules, "renovate.json missing or invalid packageRules") >>
        \o (IF packageRules = "F"
            THEN << Check(Not3(Any3([i \in 1..Len(rules.items) |-> has_automerge(rules.items[i])])),
                          "renovate.json missing automerge rule for minor/patch updates"),
                    Check(Not3(Any3([i \in 1..Len(rules.items) |-> has_dev_deps(rules.items[i])])),
                          "renovate.json missing dev dependencies grouping"),
                    Check(Not3(Any3([i \in 1..Len(rules.items) |-> has_php_deps(rules.items[i])])),
                          "renovate.json missing PHP dependencies grouping") >>
            ELSE <<>>)

\* renovate: the content of renovate.json, a key of RenovateFiles.
verify_renovate_config(e, renovate) ==
    IF "renovate.json" \notin e.files
    THEN [outcome |-> "exit1", msgs |-> {"renovate.json not found"}]
    ELSE IF ~RenovateFiles[renovate].parses          \* json.JSONDecodeError
    THEN [outcome |-> "exit1", msgs |-> {"renovate.json is not valid JSON"}]
    ELSE LET checks == RenovateChecks(RenovateFiles[renovate].doc)
             raised == {i \in 1..Len(checks) : checks[i].v = "E"}
             done == IF raised = {} THEN Len(checks)
                     ELSE (CHOOSE i \in raised : \A j \in raised : i <= j) - 1
             warned == {checks[i].msg : i \in {j \in 1..done : checks[j].v = "T"}}
         IN  IF raised # {}                           \* except Exception
             THEN [outcome |-> "exit1",
                   msgs |-> warned \cup {"Failed to verify renovate.json"}]
             ELSE [outcome |-> "ok",
                   msgs |-> warned \cup {"renovate.json configuration verified"}]

\* (mutant) verify_integration trusting that the caller checked the state.
verify_integration_trusting(e, showRc, ecsRc, phpRc, renovate) ==
    LET o == [proj |-> TRUE, ddev |-> TRUE]
        missing_files == SelectSeq(expected_files, LAMBDA f : f \notin e.files)
    IN  IF missing_files # <<>>
        THEN R("exit1", e, <<>>, {"Missing expected files"}, o)
        ELSE IF showRc # 0
        THEN R("raise", e, <<>>, {"Command failed"}, o)
        ELSE R("ok", e, <<>>, {"Integration verification passed"}, o)

\* The tool commands verify_integration runs inside the environment.
verify_tools == <<"ddev composer show", "ddev composer ecs --version", "ddev exec php -v">>

\* (mutant) verify_integration stopping at the first absent path.
verify_integration_first_missing(e, showRc, ecsRc, phpRc, renovate) ==
    IF ~is_project_created(e)
    THEN R("exit1", e, <<>>, {"No project found"}, [proj |-> FALSE])
    ELSE IF ~is_ddev_running(e)
    THEN R("exit1", e, <<>>, {"DDEV not running"}, [proj |-> TRUE, ddev |-> FALSE])
    ELSE LET all == SelectSeq(expected_files, LAMBDA f : f \notin e.files)
             missing_files == IF all = <<>> THEN all ELSE <<Head(all)>>
             o == [proj |-> TRUE, ddev |-> TRUE, missing |-> missing_files,
                   tools |-> <<>>]
         IN  IF missing_files # <<>>
             THEN R("exit1", e, <<>>, {"Missing expected files"}, o)
             ELSE IF showRc # 0 \/ phpRc # 0
             THEN R("raise", e, <<>>, {"Command failed"}, o)
             ELSE IF ecsRc # 0
             THEN R("exit1", e, <<>>, {"ECS command not working"}, o)
             ELSE R("ok", e, <<>>, {"Integration verification passed"},
                    [o EXCEPT !.tools = verify_tools])

\* showRc, ecsRc, phpRc: exit statuses of `ddev composer show`,
\* `ddev composer ecs --version` and `ddev exec php -v`.
verify_integration(e, showRc, ecsRc, phpRc, renovate) ==
    IF ~is_project_created(e)
    THEN R("exit1", e, <<>>, {"No project found"}, [proj |-> FALSE])
    ELSE IF ~is_ddev_running(e)
    THEN R("exit1", e, <<>>, {"DDEV not running"}, [proj |-> TRUE, ddev |-> FALSE])
    ELSE LET missing_files ==
                 SelectSeq(expected_files, LAMBDA f : f \notin e.files)
             o(n) == [proj |-> TRUE, ddev |-> TRUE, missing |-> missing_files,
                      tools |-> SubSeq(verify_tools, 1, n)]
         IN  IF missing_files # <<>>
             THEN R("exit1", e, <<>>, {"Missing expected files"}, o(0))
             ELSE IF showRc # 0
             THEN R("raise", e, <<>>, {"Command failed"}, o(1))
             ELSE IF ecsRc # 0
             THEN R("exit1", e, <<>>, {"ECS command not working"}, o(2))
             ELSE IF phpRc # 0
             THEN R("raise", e, <<>>, {"Command failed"}, o(3))
             ELSE IF verify_renovate_config(e, renovate).outcome # "ok"
             THEN R("exit1", e, <<>>, verify_renovate_config(e, renovate).msgs, o(3))
             ELSE R("ok", e, <<>>, {"Integration verification passed"}, o(3))

\* ---------------------------------------------------------- HookTester
TestFiles == {TestFile1, TestFile2}

\* The operations of test_branch_validation, in program order.
HookOps ==
    << "git checkout default",            \*  1 _switch_to_default_branch
       "git branch -D feature",           \*  2
       "git branch -D invalid",           \*  3
       "git checkout -b feature",         \*  4 _test_valid_branch
       "write test_commit.php",           \*  5
       "git add test_commit.php",         \*  6
       "git commit valid",                \*  7
       "git log subject",                 \*  8
       "git log body",                    \*  9
       "footer check",                    \* 10
       "git checkout default",            \* 11 _switch_to_default_branch
       "git checkout -b invalid",         \* 12 _test_invalid_branch
       "write test_commit2.php",          \* 13
       "git add test_commit2.php",        \* 14
       "git commit invalid",              \* 15
       "git reset HEAD test_commit2.php", \* 16
       "unlink test_commit2.php",         \* 17
       "git checkout default",            \* 18 _switch_to_default_branch
       "git branch -D feature",           \* 19
       "git branch -D invalid",           \* 20
       "git add -A",                      \* 21
       "git commit final" >>              \* 22

InvalidCommit == CHOOSE i \in 1..Len(HookOps) : HookOps[i] = "git commit invalid"

\* The points where the run can end, and how: a command run with check=True
\* outside any try raises; a failed assertion, a failed commit inside its
\* try, or no default branch, exits 1.  At InvalidCommit the "failure" is the
\* commit being accepted (exit 0).
HookFailPoints == {1, 4, 6, 7, 8, 9, 10, 11, 12, 14, 15, 18, 21, 22}

HookOutcomeAt(n) == IF n \in {4, 6, 12, 14, 21} THEN "raise" ELSE "exit1"

ReadOnlyHookOps == {"git log subject", "git log body", "footer check"}

HookEffect(e, op) ==
    CASE op = "git checkout default" ->
            [e EXCEPT !.branch = "default", !.files = @ \ e.tcommitted]
      [] op = "git branch -D feature" -> [e EXCEPT !.tcommitted = @ \ {TestFile1}]
      [] op = "git branch -D invalid" -> [e EXCEPT !.tcommitted = @ \ {TestFile2}]
      [] op = "git checkout -b feature" -> [e EXCEPT !.branch = "feature"]
      [] op = "git checkout -b invalid" -> [e EXCEPT !.branch = "invalid"]
      [] op = "write test_commit.php" -> [e EXCEPT !.files = @ \cup {TestFile1}]
      [] op = "write test_commit2.php" -> [e EXCEPT !.files = @ \cup {TestFile2}]
      [] op = "git add test_commit.php" -> [e EXCEPT !.staged = @ \cup {TestFile1}]
      [] op = "git add test_commit2.php" -> [e EXCEPT !.staged = @ \cup {TestFile2}]
      [] op = "git commit valid" ->
            [e EXCEPT !.tcommitted = @ \cup e.staged, !.staged = {},
                      !.git = "committed"]
      [] op = "git commit accepted" ->
            [e EXCEPT !.tcommitted = @ \cup e.staged, !.staged = {},
                      !.git = "committed"]
      [] op = "git reset HEAD test_commit2.php" ->
            [e EXCEPT !.staged = @ \ {TestFile2}]
      [] op = "unlink test_commit2.php" -> [e EXCEPT !.files = @ \ {TestFile2}]
      [] op = "git add -A" -> [e EXCEPT !.staged = @ \cup (e.files \cap TestFiles)]
      [] op = "git commit final" ->
            [e EXCEPT !.staged = {}, !.git = "committed", !.dirty = FALSE]
      [] OTHER -> e    \* "git commit invalid" rejected, git log, footer check

\* (mutant) the rejected test file is left in the working tree.
RECURSIVE RunHookOps_keep_file(_, _, _)
RunHookOps_keep_file(e, ops, n) ==
    IF n = 0 THEN e
    ELSE IF ops[n] = "unlink test_commit2.php"
    THEN RunHookOps_keep_file(e, ops, n - 1)
    ELSE HookEffect(RunHookOps_keep_file(e, ops, n - 1), ops[n])

RECURSIVE RunHookOps(_, _, _)
RunHookOps(e, ops, n) ==
    IF n = 0 THEN e ELSE HookEffect(RunHookOps(e, ops, n - 1), ops[n])

\* _switch_to_default_branch, the "git checkout default" of HookOps: masterRc
\* and mainRc are the exit statuses of the two checkouts.  name is the value
\* returned; when the process exits nothing is returned.
CheckoutMaster == "git checkout master"
CheckoutMain == "git checkout main"

\* (mutant) main is tried as well when master was checked out.
switch_to_default_branch_try_both(e, masterRc, mainRc) ==
    IF mainRc = 0
    THEN R("ok", HookEffect(e, "git checkout default"),
           <<CheckoutMaster, CheckoutMain>>, {}, [name |-> "main"])
    ELSE IF masterRc = 0
    THEN R("ok", HookEffect(e, "git checkout default"),
           <<CheckoutMaster, CheckoutMain>>, {}, [name |-> "master"])
    ELSE R("exit1", e, <<CheckoutMaster, CheckoutMain>>,
           {"Could not checkout master or main branch"}, [name |-> ""])

switch_to_default_branch(e, masterRc, mainRc) ==
    IF masterRc = 0
    THEN R("ok", HookEffect(e, "git checkout default"), <<CheckoutMaster>>, {},
           [name |-> "master"])
    ELSE IF mainRc = 0
    THEN R("ok", HookEffect(e, "git checkout default"),
           <<CheckoutMaster, CheckoutMain>>, {}, [name |-> "main"])
    ELSE R("exit1", e, <<CheckoutMaster, CheckoutMain>>,
           {"Could not checkout master or main branch"}, [name |-> ""])

\* The footer the commit-msg hook appends, and messages `git log -1
\* --pretty=%B` may print for the commit made on the feature branch.
TicketFooter ==
    <<"C", "l", "o", "s", "e", "s", ":", " ", "P", "R", "J", "-", "1", "2",
    "3">>
FooterBody ==
    <<"f", "e", "a", "t", ":", " ", "a", "d", "d", " ", "t", "e", "s", "t",
    " ", "f", "e", "a", "t", "u", "r", "e", "\n", "\n", "C", "l", "o", "s",
    "e", "s", ":", " ", "P", "R", "J", "-", "1", "2", "3", "\n">>
PlainBody ==
    <<"f", "e", "a", "t", ":", " ", "a", "d", "d", " ", "t", "e", "s", "t",
    " ", "f", "e", "a", "t", "u", "r", "e", "\n">>
LowerCaseBody ==
    <<"f", "e", "a", "t", ":", " ", "a", "d", "d", " ", "t", "e", "s", "t",
    " ", "f", "e", "a", "t", "u", "r", "e", "\n", "\n", "c", "l", "o", "s",
    "e", "s", ":", " ", "p", "r", "j", "-", "1", "2", "3", "\n">>
OtherTicketBody ==
    <<"f", "e", "a", "t", ":", " ", "a", "d", "d", " ", "t", "e", "s", "t",
    " ", "f", "e", "a", "t", "u", "r", "e", "\n", "\n", "C", "l", "o", "s",
    "e", "s", ":", " ", "P", "R", "J", "-", "1", "2", "\n">>

CommitBodies == {FooterBody, PlainBody, LowerCaseBody, OtherTicketBody}

FooterCheck == CHOOSE i \in 1..Len(HookOps) : HookOps[i] = "footer check"

\* The failures the caller draws: any fail point except the two that are
\* decided by body and invalidRc.
HookFailInputs == HookFailPoints \ {FooterCheck, InvalidCommit}

DeleteOps == {"git branch -D feature", "git branch -D invalid"}

\* (mutant) the commit message is not looked at.
FirstFailure_any_message(failAt, body, invalidRc, deleteRc) ==
    IF failAt \in HookFailInputs /\ failAt < InvalidCommit THEN failAt
    ELSE IF invalidRc = 0 THEN InvalidCommit
    ELSE failAt

\* (mutant) the commit on the invalid branch is expected to succeed.
FirstFailure_expect_success(failAt, body, invalidRc, deleteRc) ==
    IF failAt \in HookFailInputs /\ failAt < FooterCheck THEN failAt
    ELSE IF ~Contains(body, TicketFooter) THEN FooterCheck
    ELSE IF failAt \in HookFailInputs /\ failAt < InvalidCommit THEN failAt
    ELSE IF invalidRc # 0 THEN InvalidCommit
    ELSE failAt

\* (mutant) the deletion of a leftover branch is run with check=True.
FirstFailure_delete_checked(failAt, body, invalidRc, deleteRc) ==
    IF failAt = 1 THEN failAt
    ELSE IF deleteRc # 0 THEN CHOOSE i \in 1..Len(HookOps) :
                                 /\ HookOps[i] \in DeleteOps
                                 /\ \A j \in 1..(i - 1) : HookOps[j] \notin DeleteOps
    ELSE IF failAt \in HookFailInputs /\ failAt < FooterCheck THEN failAt
    ELSE IF ~Contains(body, TicketFooter) THEN FooterCheck
    ELSE IF failAt \in HookFailInputs /\ failAt < InvalidCommit THEN failAt
    ELSE IF invalidRc = 0 THEN InvalidCommit
    ELSE failAt

\* The first point of HookFailPoints that ends the run (0: none).  failAt: a
\* command that fails; body: the message of the commit made on the feature
\* branch; invalidRc: exit status of the commit on the invalid branch;
\* deleteRc: exit status of `git branch -D` where the branch has no commit of
\* the test (non-zero: there is no such branch), which is ignored.
FirstFailure(failAt, body, invalidRc, deleteRc) ==
    IF failAt \in HookFailInputs /\ failAt < FooterCheck THEN failAt
    ELSE IF ~Contains(body, TicketFooter) THEN FooterCheck
    ELSE IF failAt \in HookFailInputs /\ failAt < InvalidCommit THEN failAt
    ELSE IF invalidRc = 0 THEN InvalidCommit
    ELSE failAt

FinalCommit == CHOOSE i \in 1..Len(HookOps) : HookOps[i] = "git commit final"

\* `git commit` has nothing to commit and exits 1.
NothingToCommit(e) == ~e.dirty /\ e.staged = {}

\* (mutant) the final commit succeeds with nothing to commit.
ForcedFailure_allow_empty(e, first) ==
    IF e.git # "committed" THEN 1 ELSE first

\* What the repository adds to the failures drawn: without a commit neither
\* master nor main can be checked out, and the final commit fails when
\* `git add -A` staged nothing.
ForcedFailure(e, first) ==
    IF e.git # "committed" THEN 1
    ELSE IF first = 0 /\ NothingToCommit(RunHookOps(e, HookOps, FinalCommit - 1))
    THEN FinalCommit
    ELSE first

\* os.environ and its copies: functions from variable names to values.
NoEnviron == [x \in {} |-> ""]
SetVar(environ, k, v) ==
    [x \in DOMAIN environ \cup {k} |-> IF x = k THEN v ELSE environ[x]]

HarnessEnviron == SetVar(NoEnviron, "PATH", "/usr/bin")

Environs == {HarnessEnviron, SetVar(HarnessEnviron, "SKIP_PHPSTAN", "0")}

CommitOps == {"git commit valid", "git commit invalid", "git commit final"}

\* (mutant) only PHPStan is switched off.
commit_env_phpstan_only(environ) == SetVar(environ, "SKIP_PHPSTAN", "1")

\* env = os.environ.copy(); env["SKIP_PHPSTAN"] = "1"; env["SKIP_PSALM"] = "1"
commit_env(environ) ==
    SetVar(SetVar(environ, "SKIP_PHPSTAN", "1"), "SKIP_PSALM", "1")

\* (mutant) the hook tests also want the git hooks installed.
hook_test_gate_needs_hooks(e) ==
    IF ~is_project_created(e) THEN [pass |-> FALSE, obs |-> [proj |-> FALSE]]
    ELSE IF ~is_booster_integrated(e)
    THEN [pass |-> FALSE, obs |-> [proj |-> TRUE, integ |-> FALSE]]
    ELSE [pass |-> has_git_hooks(e), obs |-> [proj |-> TRUE, integ |-> TRUE]]

\* The guard test_branch_validation and test_github_actions start with.
hook_test_gate(e) ==
    IF ~is_project_created(e) THEN [pass |-> FALSE, obs |-> [proj |-> FALSE]]
    ELSE IF ~is_booster_integrated(e)
    THEN [pass |-> FALSE, obs |-> [proj |-> TRUE, integ |-> FALSE]]
    ELSE [pass |-> TRUE, obs |-> [proj |-> TRUE, integ |-> TRUE]]

\* environ: os.environ of the harness.  obs.commit_env is the environment
\* given to each commit that was run, obs.environ is os.environ afterwards.
test_branch_validation(e, failAt, body, invalidRc, deleteRc, environ) ==
    IF ~hook_test_gate(e).pass
    THEN R("exit1", e, <<>>, {"Project not set up or booster not integrated"},
           hook_test_gate(e).obs)
    ELSE LET first == ForcedFailure(e, FirstFailure(failAt, body, invalidRc, deleteRc))
             failed == first # 0
             nOk == IF failed THEN first - 1 ELSE Len(HookOps)
             nRun == IF failed THEN first ELSE Len(HookOps)
             e1 == RunHookOps(e, HookOps, nOk)
             e2 == IF first = InvalidCommit
                   THEN HookEffect(e1, "git commit accepted") ELSE e1
             issued == SelectSeq(SubSeq(HookOps, 1, nRun),
                                 LAMBDA op : op \notin ReadOnlyHookOps)
             o == [proj |-> TRUE, integ |-> TRUE,
                   commit_env |-> [op \in CommitOps \cap Range(issued) |->
                                      commit_env(environ)],
                   environ |-> environ]
         IN  R(IF failed THEN HookOutcomeAt(first) ELSE "ok",
               e2, issued,
               IF failed THEN {"hook test failed"}
               ELSE {"All branch validation tests passed",
                     "Successfully committed booster integration"},
               o)

\* The tokens _validate_workflow_content looks for in the workflow file.
required_content ==
    << <<"o", "n", ":">>,
       <<"p", "u", "s", "h", ":">>,
       <<"p", "u", "l", "l", "_", "r", "e", "q", "u", "e", "s", "t", ":">>,
       <<"p", "h", "p", "-", "a", "u", "t", "o", "-", "f", "i", "x", ":">>,
       <<"r", "u", "n", "s", "-", "o", "n", ":", " ", "u", "b", "u", "n",
          "t", "u", "-", "l", "a", "t", "e", "s", "t">>,
       <<"R", "e", "c", "t", "o", "r">>,
       <<"E", "C", "S">>,
       <<"c", "o", "m", "p", "o", "s", "e", "r", " ", "i", "n", "s", "t",
          "a", "l", "l">> >>

ActionReference ==
    <<".", "/", ".", "g", "i", "t", "h", "u", "b", "/", "a", "c", "t", "i",
    "o", "n", "s", "/", "p", "h", "p", "-", "a", "u", "t", "o", "-", "f", "i",
    "x">>

\* Texts php-auto-fix-simple.yml may hold, by name; "ok" has every token and
\* the reference, "no trigger" has no `on:` key of its own.
WorkflowContents ==
    ("ok" :>
        <<"o", "n", ":", "\n", "p", "u", "s", "h", ":", "\n", "p", "u", "l",
        "l", "_", "r", "e", "q", "u", "e", "s", "t", ":", "\n", "p", "h", "p",
        "-", "a", "u", "t", "o", "-", "f", "i", "x", ":", "\n", "r", "u", "n",
        "s", "-", "o", "n", ":", " ", "u", "b", "u", "n", "t", "u", "-", "l",
        "a", "t", "e", "s", "t", "\n", "u", "s", "e", "s", ":", " ", ".", "/",
        ".", "g", "i", "t", "h", "u", "b", "/", "a", "c", "t", "i", "o", "n",
        "s", "/", "p", "h", "p", "-", "a", "u", "t", "o", "-", "f", "i", "x",
        "\n", "R", "e", "c", "t", "o", "r", " ", "E", "C", "S", "\n", "c", "o",
        "m", "p", "o", "s", "e", "r", " ", "i", "n", "s", "t", "a", "l", "l",
        "\n">>) @@
    ("missing token" :>
        <<"o", "n", ":", "\n", "p", "u", "s", "h", ":", "\n", "p", "u", "l",
        "l", "_", "r", "e", "q", "u", "e", "s", "t", ":", "\n", "p", "h", "p",
        "-", "a", "u", "t", "o", "-", "f", "i", "x", ":", "\n", "r", "u", "n",
        "s", "-", "o", "n", ":", " ", "u", "b", "u", "n", "t", "u", "-", "l",
        "a", "t", "e", "s", "t", "\n", "u", "s", "e", "s", ":", " ", ".", "/",
        ".", "g", "i", "t", "h", "u", "b", "/", "a", "c", "t", "i", "o", "n",
        "s", "/", "p", "h", "p", "-", "a", "u", "t", "o", "-", "f", "i", "x",
        "\n", "E", "C", "S", "\n", "c", "o", "m", "p", "o", "s", "e", "r", " ",
        "i", "n", "s", "t", "a", "l", "l", "\n">>) @@
    ("no reference" :>
        <<"o", "n", ":", "\n", "p", "u", "s", "h", ":", "\n", "p", "u", "l",
        "l", "_", "r", "e", "q", "u", "e", "s", "t", ":", "\n", "p", "h", "p",
        "-", "a", "u", "t", "o", "-", "f", "i", "x", ":", "\n", "r", "u", "n",
        "s", "-", "o", "n", ":", " ", "u", "b", "u", "n", "t", "u", "-", "l",
        "a", "t", "e", "s", "t", "\n", "u", "s", "e", "s", ":", " ", ".", "/",
        ".", "g", "i", "t", "h", "u", "b", "/", "a", "c", "t", "i", "o", "n",
        "s", "/", "p", "h", "p", "-", "f", "i", "x", "\n", "R", "e", "c", "t",
        "o", "r", " ", "E", "C", "S", "\n", "c", "o", "m", "p", "o", "s", "e",
        "r", " ", "i", "n", "s", "t", "a", "l", "l", "\n">>) @@
    ("no trigger" :>
        <<"p", "u", "s", "h", ":", "\n", "p", "u", "l", "l", "_", "r", "e",
        "q", "u", "e", "s", "t", ":", "\n", "p", "h", "p", "-", "a", "u", "t",
        "o", "-", "f", "i", "x", ":", "\n", "r", "u", "n", "s", "-", "o", "n",
        ":", " ", "u", "b", "u", "n", "t", "u", "-", "l", "a", "t", "e", "s",
        "t", "\n", "u", "s", "e", "s", ":", " ", ".", "/", ".", "g", "i", "t",
        "h", "u", "b", "/", "a", "c", "t", "i", "o", "n", "s", "/", "p", "h",
        "p", "-", "a", "u", "t", "o", "-", "f", "i", "x", "\n", "R", "e", "c",
        "t", "o", "r", " ", "E", "C", "S", "\n", "c", "o", "m", "p", "o", "s",
        "e", "r", " ", "i", "n", "s", "t", "a", "l", "l", "\n">>) @@
    ("lower case" :>
        <<"o", "n", ":", "\n", "p", "u", "s", "h", ":", "\n", "p", "u", "l",
        "l", "_", "r", "e", "q", "u", "e", "s", "t", ":", "\n", "p", "h", "p",
        "-", "a", "u", "t", "o", "-", "f", "i", "x", ":", "\n", "r", "u", "n",
        "s", "-", "o", "n", ":", " ", "u", "b", "u", "n", "t", "u", "-", "l",
        "a", "t", "e", "s", "t", "\n", "u", "s", "e", "s", ":", " ", ".", "/",
        ".", "g", "i", "t", "h", "u", "b", "/", "a", "c", "t", "i", "o", "n",
        "s", "/", "p", "h", "p", "-", "a", "u", "t", "o", "-", "f", "i", "x",
        "\n", "r", "e", "c", "t", "o", "r", " ", "e", "c", "s", "\n", "c", "o",
        "m", "p", "o", "s", "e", "r", " ", "i", "n", "s", "t", "a", "l", "l",
        "\n">>) @@
    ("empty" :>
        <<>>)

\* content: the text of the workflow file.
validate_workflow_content(content) ==
    IF \E i \in 1..Len(required_content) : ~Contains(content, required_content[i])
    THEN [outcome |-> "exit1", msgs |-> {"Main workflow missing required content"}]
    ELSE IF ~Contains(content, ActionReference)
    THEN [outcome |-> "exit1", msgs |-> {"Simple workflow doesn't use the reusable action"}]
    ELSE [outcome |-> "ok", msgs |-> {"Simple workflow correctly uses reusable action"}]

\* yamlInstalled: `import yaml` works; wfYaml, actYaml: the file parses;
\* content: the text of the workflow file, a key of WorkflowContents.
test_github_actions(e, yamlInstalled, wfYaml, actYaml, content) ==
    IF ~hook_test_gate(e).pass
    THEN R("exit1", e, <<>>, {"Project not set up or booster not integrated"},
           hook_test_gate(e).obs)
    ELSE LET o == hook_test_gate(e).obs
         IN  IF WorkflowsDir \notin e.files
             THEN R("exit1", e, <<>>, {"workflows directory not found"}, o)
             ELSE IF ActionsDir \notin e.files
             THEN R("exit1", e, <<>>, {"action directory not found"}, o)
             ELSE IF WorkflowFile \notin e.files
             THEN R("exit1", e, <<>>, {"Required workflow file missing"}, o)
             ELSE IF ActionFile \notin e.files
             THEN R("exit1", e, <<>>, {"Reusable action.yml file missing"}, o)
             ELSE IF ~yamlInstalled
             THEN R("ok", e, <<>>, {"PyYAML not installed"}, o)
             ELSE IF ~wfYaml
             THEN R("exit1", e, <<>>, {"Workflow has invalid YAML"}, o)
             ELSE IF ~actYaml
             THEN R("exit1", e, <<>>, {"Reusable action has invalid YAML"}, o)
             ELSE IF validate_workflow_content(WorkflowContents[content]).outcome # "ok"
             THEN R("exit1", e, <<>>,
                    validate_workflow_content(WorkflowContents[content]).msgs, o)
             ELSE R("ok", e, <<>>, {"All GitHub Actions auto-fix tests passed"}, o)

\* --------------------------------------------- EnvironmentCleaner, status
\* stopRc: exit status of `ddev stop` (check=True inside a bare try/except,
\* so a failure skips `ddev delete` and is swallowed); deleteRc: exit status
\* of `ddev delete` (check=False).  obs.queries are the status queries made,
\* obs.levels the levels of the messages logged.
CleanOps(up, stopRc) ==
    IF ~up THEN <<"rmtree">>
    ELSE IF stopRc # 0 THEN <<"ddev stop", "rmtree">>
    ELSE <<"ddev stop", "ddev delete", "rmtree">>

\* (mutant) the runtime is asked for its status before the directory is
\* looked at.
clean_environment_query_first(e, stopRc, deleteRc) ==
    IF e.dir
    THEN R("ok", RmTree(e), CleanOps(is_ddev_running(e), stopRc),
           {"Test environment cleaned up"},
           [ddev |-> is_ddev_running(e), queries |-> <<"ddev status">>,
            levels |-> {"info", "success"}])
    ELSE R("ok", e, <<>>, {"No test environment found"},
           [queries |-> <<"ddev status">>, levels |-> {"info"}])

\* (mutant) a failing `ddev stop` ends the clean.
clean_environment_stop_aborts(e, stopRc, deleteRc) ==
    IF e.dir
    THEN IF is_ddev_running(e) /\ stopRc # 0
         THEN R("raise", e, <<"ddev stop">>, {"Command failed"},
                [ddev |-> TRUE, queries |-> is_ddev_running_cmds(e),
                 levels |-> {"info", "error"}])
         ELSE R("ok", RmTree(e), CleanOps(is_ddev_running(e), stopRc),
                {"Test environment cleaned up"},
                [ddev |-> is_ddev_running(e), queries |-> is_ddev_running_cmds(e),
                 levels |-> {"info", "success"}])
    ELSE R("ok", e, <<>>, {"No test environment found"},
           [queries |-> <<>>, levels |-> {"info"}])

clean_environment(e, stopRc, deleteRc) ==
    IF e.dir
    THEN LET up == is_ddev_running(e)
             ops == CleanOps(up, stopRc)
             stopped == IF up /\ stopRc = 0 THEN Effect(e, "ddev stop") ELSE e
             deleted == IF up /\ stopRc = 0 /\ deleteRc = 0
                        THEN Effect(stopped, "ddev delete") ELSE stopped
         IN  R("ok", Effect(deleted, "rmtree"), ops, {"Test environment cleaned up"},
               [ddev |-> up, queries |-> is_ddev_running_cmds(e),
                levels |-> {"info", "success"}])
    ELSE R("ok", e, <<>>, {"No test environment found"},
           [queries |-> <<>>, levels |-> {"info"}])

\* (mutant) the version line is printed whenever the stamp could be read.
show_status_any_value(e) ==
    R("ok", e, <<>>,
      IF get_integrated_version(e).some THEN {"Booster version"} ELSE {},
      [proj |-> is_project_created(e), ddev |-> is_ddev_running(e),
       integ |-> is_booster_integrated(e), version |-> get_integrated_version(e),
       hooks |-> has_git_hooks(e), queries |-> is_ddev_running_cmds(e)])

show_status(e) ==
    LET version == get_integrated_version(e)
    IN  R("ok", e, <<>>,
          IF version.some /\ version.val # <<>> THEN {"Booster version"} ELSE {},
          [proj |-> is_project_created(e), ddev |-> is_ddev_running(e),
           integ |-> is_booster_integrated(e), version |-> version,
           hooks |-> has_git_hooks(e), queries |-> is_ddev_running_cmds(e)])

\* ------------------------------------------- TestOrchestrator: interactive
\* scriptFound: booster/integrate_booster.sh exists; tempExists: the
\* temporary test directory <root>/tests/temp_interactive_test exists;
\* spawnOk: subprocess.run did not raise; complete: every expected file was
\* created and the branch config holds the ticket prefix; rc: exit status.
test_interactive_mode_standalone(e, scriptFound, tempExists, spawnOk, complete, rc) ==
    IF ~scriptFound
    THEN R("False", e, <<>>, {"Booster script not found"}, [x \in {} |-> FALSE])
    ELSE LET mk == IF tempExists THEN <<>> ELSE <<"mkdir temp">>
             m == mk \o <<"integrate_booster.sh -I -v (temp)">>
         IN  IF ~spawnOk
             THEN R("False", e, m, {"Error during standalone test"},
                    [x \in {} |-> FALSE])
             ELSE IF ~complete
             THEN R("False", e, m, {"expected files were not created"},
                    [x \in {} |-> FALSE])
             ELSE IF rc = 0
             THEN R("True", e, m, {"Standalone interactive test completed"},
                    [x \in {} |-> FALSE])
             ELSE R("False", e, m, {"Standalone interactive test failed"},
                    [x \in {} |-> FALSE])

test_interactive_mode_project(e, interactive, rc, w) ==
    IF ~is_project_created(e)
    THEN R("False", e, <<>>, {"Project not found"}, [proj |-> FALSE])
    ELSE IF ~is_ddev_running(e)
    THEN R("False", e, <<>>, {"DDEV not running"}, [proj |-> TRUE, ddev |-> FALSE])
    ELSE LET r == integrate_booster(e, interactive, rc, w)
         IN  IF r.outcome = "True"
             THEN [r EXCEPT !.msgs = @ \cup {"Interactive mode test completed"}]
             ELSE [r EXCEPT !.msgs = @ \cup {"Interactive mode test failed"}]

\* tempExists: as above; rmOk: shutil.rmtree(test_dir) did not raise.
clean_interactive_test(e, tempExists, rmOk) ==
    IF tempExists
    THEN IF rmOk
         THEN R("True", e, <<"rmtree temp">>, {"Test directory cleaned up"},
                [x \in {} |-> FALSE])
         ELSE R("False", e, <<"rmtree temp">>,
                {"Error cleaning up test directory"}, [x \in {} |-> FALSE])
    ELSE R("True", e, <<>>, {"No test directory found"}, [x \in {} |-> FALSE])

\* --------------------------------------- test-integration.py (standalone)
te_required_tools == <<"git", "curl", "ddev">>

te_check_requirements(e, avail, ddevRc) ==
    LET missing == SelectSeq(te_required_tools, LAMBDA c : c \notin avail)
    IN  IF missing # <<>>
        THEN R("exit1", e, <<>>, {"Missing required tools"}, [missing |-> missing])
        ELSE IF ddevRc # 0
        THEN R("exit1", e, <<>>, {"DDEV is installed but not working"},
               [missing |-> missing])
        ELSE R("ok", e, <<>>, {"All required tools are available"},
               [missing |-> missing])

te_setup_symfony_cmds ==
    <<"ddev config", "ddev start", "composer create-project",
      "composer require webapp">> \o GitInitCmds

te_setup_laravel_cmds ==
    <<"ddev config", "ddev start", "composer create-project",
      "ddev exec cp .env", "ddev artisan key:generate">> \o GitInitCmds

TeSetupCmds(ptype) ==
    IF ptype = "symfony" THEN te_setup_symfony_cmds ELSE te_setup_laravel_cmds

\* TestEnvironment.setup_project: an existing target directory is removed
\* first ("Target directory already exists. Removing...").
te_setup_project(e, ptype, stopRc, failAt) ==
    LET up == is_ddev_running(e)
        pre == IF ~e.dir THEN <<>>
               ELSE IF up THEN <<"ddev stop", "rmtree">> ELSE <<"rmtree">>
        e0 == IF ~e.dir THEN e
              ELSE IF up /\ stopRc = 0 THEN RunOps(e, pre, Len(pre))
              ELSE Effect(e, "rmtree")
        cmds == TeSetupCmds(ptype)
        e1 == Effect(e0, "mkdir")
        failed == failAt \in 1..Len(cmds)
        nOk == IF failed THEN failAt - 1 ELSE Len(cmds)
        nRun == IF failed THEN failAt ELSE Len(cmds)
    IN  R(IF failed THEN "raise" ELSE "ok",
          RunOps(e1, cmds, nOk),
          pre \o <<"mkdir">> \o SubSeq(cmds, 1, nRun),
          (IF e.dir THEN {"Target directory already exists. Removing..."} ELSE {})
             \cup (IF failed THEN {"Command failed"}
                   ELSE {"Project and DDEV setup complete"}),
          IF e.dir THEN [ddev |-> up] ELSE [x \in {} |-> FALSE])

\* ---------------------------------------------------- TestOrchestrator
EnvCheck == <<"check_environment", "check_requirements">>

\* The steps of run_full_test, in program order; the last one prints
\* "Test completed successfully!".
run_full_test ==
    EnvCheck \o <<"setup_project", "integrate_booster", "verify_integration",
                  "test_branch_validation", "print_success">>

\* (mutant) the dictionary with `setup` not preceded by the environment check.
actions_nocheck ==
    ("full" :> run_full_test) @@
    ("env-check" :> EnvCheck) @@
    ("setup" :> <<"setup_project">>) @@
    ("setup-resume" :> EnvCheck \o <<"setup_resume">>) @@
    ("integrate" :> EnvCheck \o <<"integrate_booster">>) @@
    ("verify" :> EnvCheck \o <<"verify_integration">>) @@
    ("test-hooks" :> EnvCheck \o <<"test_branch_validation">>) @@
    ("test-interactive" :> EnvCheck \o <<"test_interactive_mode_standalone">>) @@
    ("test-interactive-project" :> EnvCheck \o <<"test_interactive_mode_project">>) @@
    ("clean-interactive-test" :> <<"clean_interactive_test">>) @@
    ("clean" :> <<"clean_environment">>) @@
    ("status" :> <<"show_status">>) @@
    ("help" :> <<"print_help">>)

\* The `actions` dictionary of run_action: action name -> procedure.
actions ==
    ("full" :> run_full_test) @@
    ("env-check" :> EnvCheck) @@
    ("setup" :> EnvCheck \o <<"setup_project">>) @@
    ("setup-resume" :> EnvCheck \o <<"setup_resume">>) @@
    ("integrate" :> EnvCheck \o <<"integrate_booster">>) @@
    ("verify" :> EnvCheck \o <<"verify_integration">>) @@
    ("test-hooks" :> EnvCheck \o <<"test_branch_validation">>) @@
    ("test-interactive" :> EnvCheck \o <<"test_interactive_mode_standalone">>) @@
    ("test-interactive-project" :> EnvCheck \o <<"test_interactive_mode_project">>) @@
    ("clean-interactive-test" :> <<"clean_interactive_test">>) @@
    ("clean" :> <<"clean_environment">>) @@
    ("status" :> <<"show_status">>) @@
    ("help" :> <<"print_help">>)

\* The `actions` dictionary of main() in test-integration.py (the entries
\* whose procedures differ from the library's are modelled).
main_actions ==
    ("setup" :> <<"te_check_environment", "te_check_requirements",
                  "te_setup_project">>) @@
    ("clean" :> <<"te_clean_environment">>)

\* A caller of the library invoking a component method directly.
api_calls == ("test_github_actions" :> <<"test_github_actions">>)

Dispatch(s) ==
    IF s = "lib" THEN actions ELSE IF s = "standalone" THEN main_actions
    ELSE api_calls

\* run_action(action): actions.get(action); an unknown name logs
\* "Unknown action" and calls sys.exit(1).
run_action(s, a) ==
    IF a \in DOMAIN Dispatch(s)
    THEN [known |-> TRUE, plan |-> Dispatch(s)[a], outcome |-> "ok"]
    ELSE [known |-> FALSE, plan |-> <<>>, outcome |-> "exit1"]

\* (mutant) each step wrapped in `try ... except Exception: log and go on`.
Propagates_swallow(outcome) == outcome \in {"exit1", "exit2"}

\* An exception or a SystemExit raised by a step leaves the procedure: no
\* step catches what an earlier one raised.
Propagates(outcome) == outcome \in Fatal

\* The entry point: the exit status of the process for the way the action
\* ended (normal return 0; sys.exit(n) n; an uncaught error 1).
MainExit(outcome) ==
    IF outcome = "exit1" THEN 1
    ELSE IF outcome = "exit2" THEN 2
    ELSE IF outcome = "raise" THEN 1
    ELSE 0

\* The action names of the command line, and one that is none of them.
CliActions ==
    {"full", "env-check", "setup", "setup-resume", "integrate", "verify",
     "test-hooks", "test-github-actions", "test-interactive",
     "test-interactive-project", "clean-interactive-test", "clean", "status",
     "help"}

ActionInputs(s) ==
    IF s = "lib" THEN CliActions \cup {"bogus"}
    ELSE IF s = "standalone" THEN DOMAIN main_actions
    ELSE DOMAIN api_calls

Plan == run_action(script, action).plan

AtStep(name) == pc = "running" /\ ip \in 1..Len(Plan) /\ Plan[ip] = name

\* ------------------------------------------------------------- the runs
Init ==
    /\ env = EnvInit
    /\ script = "none"
    /\ action = "none"
    /\ pc = "idle"
    /\ ip = 0
    /\ trace = <<>>
    /\ muts = <<>>
    /\ msgs = {}
    /\ exitCode = 0
    /\ prev = [run |-> "none", env |-> EnvInit]
    /\ nruns = 0
    /\ nchanges = 0
    /\ touched = FALSE

StartRun(s, a) ==
    /\ pc = "idle"
    /\ nruns < MaxRuns
    /\ LET d == run_action(s, a)
       IN  /\ script' = s
           /\ action' = a
           /\ nruns' = nruns + 1
           /\ trace' = <<>>
           /\ muts' = <<>>
           /\ IF d.known
              THEN /\ pc' = "running"
                   /\ ip' = 1
                   /\ msgs' = {}
                   /\ exitCode' = 0
              ELSE /\ pc' = "done"
                   /\ ip' = 0
                   /\ msgs' = {"Unknown action"}
                   /\ exitCode' = MainExit(d.outcome)
    /\ UNCHANGED <<env, prev, nchanges, touched>>

\* A step with result r has run: record it, apply it, go on or end.
Apply(name, r) ==
    /\ trace' = Append(trace,
                       [step |-> name, env |-> env, obs |-> r.obs,
                        outcome |-> r.outcome, nmut |-> Len(r.muts),
                        changed |-> r.env # env])
    /\ env' = r.env
    /\ muts' = muts \o r.muts
    /\ msgs' = msgs \cup r.msgs
    /\ IF Propagates(r.outcome)
       THEN /\ pc' = "done"
            /\ exitCode' = MainExit(r.outcome)
            /\ ip' = ip
       ELSE /\ pc' = "running"
            /\ exitCode' = exitCode
            /\ ip' = ip + 1
    /\ UNCHANGED <<script, action, prev, nruns, nchanges, touched>>

Rc == {0, 1}

CheckEnvironment ==
    /\ AtStep("check_environment")
    /\ Apply("check_environment", check_environment(env))

CheckRequirements ==
    /\ AtStep("check_requirements")
    /\ \E avail \in SUBSET Range(required_commands), dockerRc \in Rc, ddevRc \in Rc :
          Apply("check_requirements", check_requirements(env, avail, dockerRc, ddevRc))

SetupProject ==
    /\ AtStep("setup_project")
    /\ \E ptype \in ProjectTypes :
       \E failAt \in 0..Len(SetupCmds(ptype)) :
          Apply("setup_project", setup_project(env, ptype, failAt))

SetupResume ==
    /\ AtStep("setup_resume")
    /\ \E startRc \in Rc : Apply("setup_resume", setup_resume(env, startRc))

IntegrateBooster ==
    /\ AtStep("integrate_booster")
    /\ \E rc \in Rc, w \in ScriptWrites :
          Apply("integrate_booster", integrate_booster(env, FALSE, rc, w))

VerifyIntegration ==
    /\ AtStep("verify_integration")
    /\ \E showRc \in Rc, ecsRc \in Rc, phpRc \in Rc, renovate \in {"valid", "invalid"} :
          Apply("verify_integration",
                verify_integration(env, showRc, ecsRc, phpRc, renovate))

TestBranchValidation ==
    /\ AtStep("test_branch_validation")
    /\ \E r \in { test_branch_validation(env, failAt, body, invalidRc, 1,
                                           HarnessEnviron) :
                    failAt \in {0} \cup HookFailInputs,
                    body \in {FooterBody, PlainBody}, invalidRc \in Rc } :
          Apply("test_branch_validation", r)

TestGithubActions ==
    /\ AtStep("test_github_actions")
    /\ \E yamlInstalled \in BOOLEAN, wfYaml \in BOOLEAN, actYaml \in BOOLEAN,
          content \in {"ok", "missing token", "no reference"} :
          Apply("test_github_actions",
                test_github_actions(env, yamlInstalled, wfYaml, actYaml, content))

TestInteractiveStandalone ==
    /\ AtStep("test_interactive_mode_standalone")
    /\ \E scriptFound \in BOOLEAN, tempExists \in BOOLEAN, spawnOk \in BOOLEAN,
          complete \in BOOLEAN, rc \in Rc :
          Apply("test_interactive_mode_standalone",
                test_interactive_mode_standalone(env, scriptFound, tempExists,
                                                 spawnOk, complete, rc))

TestInteractiveProject ==
    /\ AtStep("test_interactive_mode_project")
    /\ \E automated \in BOOLEAN, rc \in Rc, w \in ScriptWrites :
          Apply("test_interactive_mode_project",
                test_interactive_mode_project(env, ~automated, rc, w))

CleanInteractiveTest ==
    /\ AtStep("clean_interactive_test")
    /\ \E tempExists \in BOOLEAN, rmOk \in BOOLEAN :
          Apply("clean_interactive_test", clean_interactive_test(env, tempExists, rmOk))

CleanEnvironment ==
    /\ AtStep("clean_environment")
    /\ \E r \in { clean_environment(env, stopRc, deleteRc) :
                    stopRc \in Rc, deleteRc \in Rc } :
          Apply("clean_environment", r)

ShowStatus ==
    /\ AtStep("show_status")
    /\ Apply("show_status", show_status(env))

PrintHelp ==
    /\ AtStep("print_help")
    /\ Apply("print_help",
             R("ok", env, <<>>, {"Use --help for usage information"},
               [x \in {} |-> FALSE]))

PrintSuccess ==
    /\ AtStep("print_success")
    /\ Apply("print_success",
             R("ok", env, <<>>, {"Test completed successfully"},
               [x \in {} |-> FALSE]))

TeCheckEnvironment ==
    /\ AtStep("te_check_environment")
    /\ Apply("te_check_environment", check_environment(env))

TeCheckRequirements ==
    /\ AtStep("te_check_requirements")
    /\ \E avail \in SUBSET Range(te_required_tools), ddevRc \in Rc :
          Apply("te_check_requirements", te_check_requirements(env, avail, ddevRc))

TeSetupProject ==
    /\ AtStep("te_setup_project")
    /\ \E ptype \in ProjectTypes, stopRc \in Rc :
       \E failAt \in 0..Len(TeSetupCmds(ptype)) :
          Apply("te_setup_project", te_setup_project(env, ptype, stopRc, failAt))

TeCleanEnvironment ==
    /\ AtStep("te_clean_environment")
    /\ \E r \in { clean_environment(env, stopRc, deleteRc) :
                    stopRc \in Rc, deleteRc \in Rc } :
          Apply("te_clean_environment", r)

\* The procedure returned: the process ends with status 0.
Return ==
    /\ pc = "running"
    /\ ip > Len(Plan)
    /\ pc' = "done"
    /\ exitCode' = MainExit("ok")
    /\ UNCHANGED <<env, script, action, ip, trace, muts, msgs, prev, nruns,
                   nchanges, touched>>

StepNames(t) == [i \in 1..Len(t) |-> t[i].step]

\* What is remembered of a run once its process is gone: whether it was the
\* library's `setup` action and got as far as calling setup_project.
RunKind ==
    IF script = "lib" /\ action = "setup"
       /\ \E i \in 1..Len(trace) : trace[i].step = "setup_project"
    THEN "setup" ELSE "other"

\* The ended process is gone; the next run may start.
ProcessExit ==
    /\ pc = "done"
    /\ pc' = "idle"
    /\ prev' = [run |-> RunKind, env |-> env]
    /\ touched' = FALSE
    /\ script' = "none"
    /\ action' = "none"
    /\ ip' = 0
    /\ trace' = <<>>
    /\ muts' = <<>>
    /\ msgs' = {}
    /\ exitCode' = 0
    /\ UNCHANGED <<env, nruns, nchanges>>

\* ---------------------------------------- the environment changed by others
Volatile == {Composer, Stamp}

\* The steps that neither read nor write the environment of the target
\* directory: a change by others commutes with them.
BlindSteps ==
    {"check_environment", "check_requirements", "te_check_environment",
     "te_check_requirements", "print_help", "print_success",
     "test_interactive_mode_standalone", "clean_interactive_test"}

\* Others change the environment to e.  Only the changes made right before a
\* step that looks at the environment are generated: one made while no run
\* is in progress, or before a step of BlindSteps, is the same as one made
\* before the next step that looks.
EnvChanged(e) ==
    /\ pc = "running"
    /\ ip \in 1..Len(Plan)
    /\ Plan[ip] \notin BlindSteps
    /\ nchanges < MaxEnvChanges
    /\ env' = e
    /\ nchanges' = nchanges + 1
    /\ touched' = TRUE
    /\ UNCHANGED <<script, action, pc, ip, trace, muts, msgs, exitCode, prev, nruns>>

ExtRemoveFile ==
    \E f \in Volatile \cap env.files :
        EnvChanged([env EXCEPT !.files = @ \ {f}, !.dirty = @ \/ env.git # "none"])

ExtCreateProject ==
    /\ ~is_project_created(env)
    /\ EnvChanged([env EXCEPT !.dir = TRUE, !.files = @ \cup {Composer},
                               !.dirty = @ \/ env.git # "none"])

ExtRemoveDir ==
    /\ env.dir
    /\ EnvChanged(RmTree(env))

ExtRuntime ==
    \E st \in {"down", "silent", "up"} \ {env.ddev} : EnvChanged([env EXCEPT !.ddev = st])

Next ==
    \/ \E s \in {"lib", "standalone", "api"} : \E a \in ActionInputs(s) : StartRun(s, a)
    \/ CheckEnvironment
    \/ CheckRequirements
    \/ SetupProject
    \/ SetupResume
    \/ IntegrateBooster
    \/ VerifyIntegration
    \/ TestBranchValidation
    \/ TestGithubActions
    \/ TestInteractiveStandalone
    \/ TestInteractiveProject
    \/ CleanInteractiveTest
    \/ CleanEnvironment
    \/ ShowStatus
    \/ PrintHelp
    \/ PrintSuccess
    \/ TeCheckEnvironment
    \/ TeCheckRequirements
    \/ TeSetupProject
    \/ TeCleanEnvironment
    \/ Return
    \/ ProcessExit
    \/ ExtRemoveFile
    \/ ExtCreateProject
    \/ ExtRemoveDir
    \/ ExtRuntime

Spec == Init /\ [][Next]_vars

\* ------------------------------------------- the predicates on their own
\* A second specification: one call of a StateDetector predicate, or of
\* check_requirements, on an environment drawn from ProbeEnvs.
HookStates == [Range(expected_hooks) -> {"absent", "file", "dir"}]

StampTexts ==
    { <<>>, <<"\n">>, StampText, <<" ", "1", ".", "0", "\t", "\n">>,
      <<"1", " ", "0">> }

ProbeFiles == {Composer, Stamp} \cup FallbackPair

Repo(g, h) == [git |-> g, hooks |-> h]

ProbeEnvs ==
    \* the runtime's answers, without and with the target directory
    { [EnvInit EXCEPT !.ddev = d] : d \in DOMAIN DdevStatus }
    \cup { [EnvInit EXCEPT !.dir = TRUE, !.ddev = d] : d \in DOMAIN DdevStatus }
    \* the files the predicates look for, without and with a repository
    \cup { [EnvInit EXCEPT !.dir = TRUE, !.files = F,
                           !.git = r.git,
                           !.branch = IF r.git = "none" THEN "none" ELSE "default",
                           !.hooks = r.hooks,
                           !.stamp = IF Stamp \in F THEN StampText ELSE <<>>] :
           F \in SUBSET ProbeFiles,
           r \in {Repo("none", NoHooks), Repo("empty", NoHooks),
                  Repo("empty", AllHooks)} }
    \* the entries of .git/hooks
    \cup { [EnvInit EXCEPT !.dir = TRUE, !.git = "empty", !.branch = "default",
                           !.hooks = h] : h \in HookStates }
    \* the version stamp
    \cup { [EnvInit EXCEPT !.dir = TRUE, !.files = {Stamp}, !.stamp = t,
                           !.stampReadable = rd] :
           t \in StampTexts, rd \in BOOLEAN }
    \* an integrated project in a repository with commits, on any branch,
    \* without and with the files of an earlier hook test
    \cup { [EnvInit EXCEPT !.dir = TRUE, !.files = {Composer, Stamp} \cup F,
                           !.stamp = StampText, !.git = "committed",
                           !.branch = b, !.hooks = AllHooks, !.ddev = d,
                           !.dirty = u] :
           F \in SUBSET TestFiles, b \in {"default", "feature", "invalid"},
           d \in {"down", "up"}, u \in BOOLEAN }
    \* an integrated project with some of the workflow artifacts
    \cup { [EnvInit EXCEPT !.dir = TRUE, !.files = {Composer, Stamp} \cup F,
                           !.stamp = StampText] :
           F \in {G \in SUBSET {WorkflowsDir, ActionsDir, WorkflowFile, ActionFile} :
                    /\ WorkflowFile \in G => WorkflowsDir \in G
                    /\ ActionFile \in G => ActionsDir \in G} }
    \* the Renovate configuration
    \cup { [EnvInit EXCEPT !.dir = TRUE, !.files = {"renovate.json"}] }
    \* what a run of setup_project that failed at one of its commands leaves
    \cup { setup_project(EnvInit, ptype, failAt).env :
           ptype \in ProjectTypes, failAt \in 1..Len(setup_symfony_cmds) }

InitDetector ==
    /\ env \in ProbeEnvs
    /\ script = "detector"
    /\ action = "none"
    /\ pc = "running"
    /\ ip = 0
    /\ trace = <<>>
    /\ muts = <<>>
    /\ msgs = {}
    /\ exitCode = 0
    /\ prev = [run |-> "none", env |-> EnvInit]
    /\ nruns = 0
    /\ nchanges = 0
    /\ touched = FALSE

\* The call returned: what it was called on, what it spawned, what it gave.
Observe(name, cmds, o) ==
    /\ script = "detector"
    /\ pc = "running"
    /\ trace = <<>>
    /\ trace' = <<[step |-> name, env |-> env, cmds |-> cmds, obs |-> o]>>
    /\ pc' = "done"
    /\ UNCHANGED <<env, script, action, ip, muts, msgs, exitCode, prev, nruns,
                   nchanges, touched>>

CallIsProjectCreated ==
    /\ script = "detector"
    /\ Observe("is_project_created", <<>>, [proj |-> is_project_created(env)])

CallIsDdevRunning ==
    /\ script = "detector"
    /\ Observe("is_ddev_running", is_ddev_running_cmds(env),
               [ddev |-> is_ddev_running(env)])

CallIsBoosterIntegrated ==
    /\ script = "detector"
    /\ Observe("is_booster_integrated", <<>>, [integ |-> is_booster_integrated(env)])

CallGetIntegratedVersion ==
    /\ script = "detector"
    /\ Observe("get_integrated_version", <<>>,
               [version |-> get_integrated_version(env)])

CallHasGitHooks ==
    /\ script = "detector"
    /\ Observe("has_git_hooks", <<>>, [hooks |-> has_git_hooks(env)])

HostCommands == Range(required_commands) \cup {"composer"}

CallCheckRequirements ==
    /\ script = "detector"
    /\ pc = "running"
    /\ trace = <<>>
    /\ \E avail \in SUBSET HostCommands, dockerRc \in Rc, ddevRc \in Rc :
          LET r == check_requirements(env, avail, dockerRc, ddevRc)
          IN  /\ trace' = <<[step |-> "check_requirements", env |-> env,
                             args |-> [avail |-> avail, dockerRc |-> dockerRc,
                                       ddevRc |-> ddevRc],
                             obs |-> r.obs, outcome |-> r.outcome,
                             nmut |-> Len(r.muts), changed |-> r.env # env]>>
              /\ msgs' = r.msgs
              /\ exitCode' = MainExit(r.outcome)
    /\ pc' = "done"
    /\ UNCHANGED <<env, script, action, ip, muts, prev, nruns, nchanges, touched>>

\* A call that may end the process: its arguments, what it logged, how it ended.
Invoke(name, args, r) ==
    /\ script = "detector"
    /\ pc = "running"
    /\ trace = <<>>
    /\ trace' = <<[step |-> name, env |-> env, args |-> args, obs |-> r.obs,
                   outcome |-> r.outcome, msgs |-> r.msgs, cmds |-> r.muts,
                   after |-> r.env]>>
    /\ msgs' = r.msgs
    /\ pc' = "done"
    /\ UNCHANGED <<env, script, action, ip, muts, exitCode, prev, nruns,
                   nchanges, touched>>

CallVerifyRenovateConfig ==
    /\ script = "detector"
    /\ \E renovate \in DOMAIN RenovateFiles :
          LET v == verify_renovate_config(env, renovate)
          IN  Invoke("verify_renovate_config", [renovate |-> renovate],
                     R(v.outcome, env, <<>>, v.msgs, [warned |-> v.msgs]))

CallSwitchToDefaultBranch ==
    /\ script = "detector"
    /\ env.git # "none"
    /\ \E masterRc \in Rc, mainRc \in Rc :
          Invoke("switch_to_default_branch",
                 [masterRc |-> masterRc, mainRc |-> mainRc],
                 switch_to_default_branch(env, masterRc, mainRc))

CallTestBranchValidation ==
    /\ script = "detector"
    /\ \E failAt \in {0} \cup HookFailInputs, body \in CommitBodies, invalidRc \in Rc,
          deleteRc \in Rc, environ \in Environs :
          Invoke("test_branch_validation",
                 [failAt |-> failAt, body |-> body, invalidRc |-> invalidRc,
                  deleteRc |-> deleteRc, environ |-> environ],
                 test_branch_validation(env, failAt, body, invalidRc, deleteRc,
                                        environ))

CallTestGithubActions ==
    /\ script = "detector"
    /\ \E yamlInstalled \in BOOLEAN, wfYaml \in BOOLEAN, actYaml \in BOOLEAN,
          content \in DOMAIN WorkflowContents :
          Invoke("test_github_actions",
                 [yamlInstalled |-> yamlInstalled, wfYaml |-> wfYaml,
                  actYaml |-> actYaml, content |-> content],
                 test_github_actions(env, yamlInstalled, wfYaml, actYaml, content))

CallCleanEnvironment ==
    /\ script = "detector"
    /\ \E stopRc \in Rc, deleteRc \in Rc :
          Invoke("clean_environment", [stopRc |-> stopRc, deleteRc |-> deleteRc],
                 clean_environment(env, stopRc, deleteRc))

CallShowStatus ==
    /\ script = "detector"
    /\ Invoke("show_status", <<>>, show_status(env))

CallSetupProject ==
    \E ptype \in ProjectTypes :
        \E failAt \in 0..Len(SetupCmds(ptype)) :
            Invoke("setup_project", [ptype |-> ptype, failAt |-> failAt],
                   setup_project(env, ptype, failAt))

CallSetupResume ==
    \E startRc \in Rc :
        Invoke("setup_resume", [startRc |-> startRc], setup_resume(env, startRc))

CallIntegrateBooster ==
    \E interactive_mode \in BOOLEAN, rc \in Rc, w \in ScriptWrites :
        Invoke("integrate_booster",
               [interactive_mode |-> interactive_mode, rc |-> rc, w |-> w],
               integrate_booster(env, interactive_mode, rc, w))

NextDetector ==
    \/ CallIntegrateBooster
    \/ CallSetupProject
    \/ CallSetupResume
    \/ CallCleanEnvironment
    \/ CallShowStatus
    \/ CallVerifyRenovateConfig
    \/ CallTestGithubActions
    \/ CallSwitchToDefaultBranch
    \/ CallTestBranchValidation
    \/ CallIsProjectCreated
    \/ CallIsDdevRunning
    \/ CallIsBoosterIntegrated
    \/ CallGetIntegratedVersion
    \/ CallHasGitHooks
    \/ CallCheckRequirements

DetectorSpec == InitDetector /\ [][NextDetector]_vars

\* ================================================ booster/tools/commit-utils.py
TicketDigits == {"0", "1", "2", "3", "4", "5", "6", "7", "8", "9"}
AsciiLetters == DOMAIN UpperToLower \cup {UpperToLower[c] : c \in DOMAIN UpperToLower}

\* What load_config gets from validate-branch-name.config.cjs.  exists: the
\* file is there; object: it holds `const config = {...};`; keys: the entries
\* found with a quoted, non-empty value.  ticketIdPrefix is an alternation of
\* literals (its alternatives in order); ticketNumberPattern matches digits:
\* exactly min of them, or min and more; compiles is false when re.compile
\* raises re.error on it.
CommitConfig(exists, object, keys, prefix, number, label) ==
    [exists |-> exists, object |-> object, keys |-> keys, prefix |-> prefix,
     number |-> number, label |-> label]

OneOrMoreDigits == [compiles |-> TRUE, min |-> 1, more |-> TRUE]      \* [0-9]+
ThreeDigits == [compiles |-> TRUE, min |-> 3, more |-> FALSE]         \* [0-9]{3}
UnclosedClass == [compiles |-> FALSE, min |-> 1, more |-> TRUE]       \* [0-9

PrjOrErm == << <<"P", "R", "J">>, <<"E", "R", "M">> >>                \* PRJ|ERM
ClosesLabel == <<"C", "l", "o", "s", "e", "s">>
RefsLabel == <<"R", "e", "f", "s">>
BadLabel == <<"R", "e", "=", "f">>
PaddedLabel == <<" ", "F", "i", "x", "e", "s", "-", "1", " ">>

CommitConfigs ==
    ("absent" :> CommitConfig(FALSE, FALSE, {}, <<>>, OneOrMoreDigits, <<>>)) @@
    ("no object" :> CommitConfig(TRUE, FALSE, {}, <<>>, OneOrMoreDigits, <<>>)) @@
    ("empty" :> CommitConfig(TRUE, TRUE, {}, <<>>, OneOrMoreDigits, <<>>)) @@
    ("prefix only" :>
        CommitConfig(TRUE, TRUE, {"ticketIdPrefix"}, PrjOrErm, OneOrMoreDigits, <<>>)) @@
    ("pattern only" :>
        CommitConfig(TRUE, TRUE, {"ticketNumberPattern", "commitFooterLabel"},
                     <<>>, OneOrMoreDigits, BadLabel)) @@
    ("tickets" :>
        CommitConfig(TRUE, TRUE, {"ticketIdPrefix", "ticketNumberPattern"},
                     PrjOrErm, OneOrMoreDigits, <<>>)) @@
    ("tickets and label" :>
        CommitConfig(TRUE, TRUE,
                     {"ticketIdPrefix", "ticketNumberPattern", "commitFooterLabel"},
                     PrjOrErm, OneOrMoreDigits, RefsLabel)) @@
    ("three digits" :>
        CommitConfig(TRUE, TRUE,
                     {"ticketIdPrefix", "ticketNumberPattern", "commitFooterLabel"},
                     <<PrjOrErm[1]>>, ThreeDigits, PaddedLabel)) @@
    ("bad pattern" :>
        CommitConfig(TRUE, TRUE, {"ticketIdPrefix", "ticketNumberPattern"},
                     PrjOrErm, UnclosedClass, <<>>))

\* load_config: the dict, or an exception.
load_config(c) ==
    IF ~c.exists \/ ~c.object THEN [raises |-> TRUE, keys |-> {}]
    ELSE [raises |-> FALSE, keys |-> c.keys]

\* re.match(r'^[A-Za-z][A-Za-z0-9_-]*$', label) and neither '=' nor a
\* newline in it.
IsFooterLabel(label) ==
    /\ label # <<>>
    /\ label[1] \in AsciiLetters
    /\ \A i \in 1..Len(label) : label[i] \in AsciiLetters \cup TicketDigits \cup {"_", "-"}

process_config(c) ==
    LET given == IF "commitFooterLabel" \in c.keys THEN Strip(c.label)
                 ELSE ClosesLabel
    IN  [need_ticket |-> {"ticketIdPrefix", "ticketNumberPattern"} \subseteq c.keys,
         footer_label |-> IF IsFooterLabel(given) THEN given ELSE ClosesLabel]

\* The number of digits of branch from position j on.
DigitRun(branch, j) ==
    CHOOSE n \in 0..Len(branch) :
        /\ \A k \in j..(j + n - 1) : k <= Len(branch) /\ branch[k] \in TicketDigits
        /\ ~(j + n <= Len(branch) /\ branch[j + n] \in TicketDigits)

\* The length of the match of ((?:PREFIX)-PATTERN), re.IGNORECASE, that
\* starts at position i of branch; 0 when there is none.  The alternatives
\* are tried in order, the digits are matched greedily.
MatchLenAt(branch, i, prefix, number) ==
    LET fits(k) ==
            LET alt == prefix[k]
                dash == i + Len(alt)
            IN  /\ dash <= Len(branch)
                /\ Lower(SubSeq(branch, i, dash - 1)) = Lower(alt)
                /\ branch[dash] = "-"
                /\ DigitRun(branch, dash + 1) >= number.min
        hit == {k \in 1..Len(prefix) : fits(k)}
    IN  IF hit = {} THEN 0
        ELSE LET k == CHOOSE x \in hit : \A y \in hit : x <= y
                 run == DigitRun(branch, i + Len(prefix[k]) + 1)
             IN  Len(prefix[k]) + 1 + (IF number.more THEN run ELSE number.min)

\* ticket_regex.search(branch_name): group 1 of the leftmost match, or none.
ticket_search(branch, prefix, number) ==
    LET starts == {i \in 1..Len(branch) : MatchLenAt(branch, i, prefix, number) > 0}
    IN  IF starts = {} THEN None
        ELSE LET i == CHOOSE x \in starts : \A y \in starts : x <= y
             IN  Some(SubSeq(branch, i, i + MatchLenAt(branch, i, prefix, number) - 1))

\* What one run of the script gives: its exit status and what it printed.
Exit(status, stdout, stderr) ==
    [status |-> status, stdout |-> stdout, stderr |-> stderr]

\* (mutant) a ticket is required as soon as a prefix is configured.
handle_extract_ticket_prefix_only(c, branch_name) ==
    IF ~branch_name.some \/ branch_name.val = <<>>
    THEN Exit(2, <<>>, {"Missing <branch-name> for --extract-ticket"})
    ELSE IF "ticketIdPrefix" \notin c.keys THEN Exit(0, <<>>, {})
    ELSE IF ~c.number.compiles THEN Exit(1, <<>>, {"Ticket regex error"})
    ELSE IF ticket_search(branch_name.val, c.prefix, c.number).some
    THEN Exit(0, ticket_search(branch_name.val, c.prefix, c.number).val, {})
    ELSE Exit(1, <<>>, {})

handle_extract_ticket(c, branch_name) ==
    IF ~branch_name.some \/ branch_name.val = <<>>
    THEN Exit(2, <<>>, {"Missing <branch-name> for --extract-ticket"})
    ELSE IF ~process_config(c).need_ticket THEN Exit(0, <<>>, {})
    ELSE IF ~c.number.compiles THEN Exit(1, <<>>, {"Ticket regex error"})
    ELSE IF ticket_search(branch_name.val, c.prefix, c.number).some
    THEN Exit(0, ticket_search(branch_name.val, c.prefix, c.number).val, {})
    ELSE Exit(1, <<>>, {})

\* argv: sys.argv[1:], the command as a string and its argument as text.
commit_utils_main(c, argv) ==
    IF load_config(c).raises THEN Exit(1, <<>>, {"commit-utils error"})
    ELSE IF Len(argv) < 1 THEN Exit(2, <<>>, {"Missing command"})
    ELSE LET command == argv[1]
             argument == IF Len(argv) > 1 THEN Some(argv[2]) ELSE None
         IN  IF command = "--need-ticket"
             THEN Exit(0, IF process_config(c).need_ticket THEN <<"y", "e", "s">>
                          ELSE <<"n", "o">>, {})
             ELSE IF command = "--footer-label"
             THEN Exit(0, process_config(c).footer_label, {})
             ELSE IF command = "--extract-ticket"
             THEN handle_extract_ticket(c, argument)
             ELSE Exit(2, <<>>, {"Unknown command"})

\* Branch names given to --extract-ticket.
ValidBranch == <<"f", "e", "a", "t", "u", "r", "e", "/", "P", "R", "J", "-", "1", "2", "3", "-", "t", "e", "s", "t", "-", "f", "e", "a", "t", "u", "r", "e">>
InvalidBranch == <<"i", "n", "v", "a", "l", "i", "d", "-", "b", "r", "a", "n", "c", "h", "-", "f", "o", "r", "m", "a", "t">>
LowerBranch == <<"f", "i", "x", "/", "e", "r", "m", "-", "7">>
TwoTickets == <<"E", "R", "M", "-", "4", "5", "/", "P", "R", "J", "-", "6">>
NoNumber == <<"f", "e", "a", "t", "u", "r", "e", "/", "P", "R", "J", "-", "x">>
OtherPrefix == <<"f", "e", "a", "t", "u", "r", "e", "/", "A", "B", "C", "-", "1", "2", "3">>
ShortNumber == <<"P", "R", "J", "-", "1", "2", "-", "P", "R", "J", "-", "3", "4", "5", "6">>
BranchNames ==
    {ValidBranch, InvalidBranch, LowerBranch, TwoTickets, NoNumber, OtherPrefix, ShortNumber, <<>>}

CommitArgvs ==
    { <<>>, <<"--need-ticket">>, <<"--footer-label">>, <<"--extract-ticket">>,
      <<"--ticket">> }
    \cup { <<"--extract-ticket", b>> : b \in BranchNames }
    \cup { <<"--ticket", ValidBranch>> }

InitCommitUtils ==
    /\ env \in {[config |-> k] : k \in DOMAIN CommitConfigs}
    /\ script = "commit-utils"
    /\ action = "none"
    /\ pc = "running"
    /\ ip = 0
    /\ trace = <<>>
    /\ muts = <<>>
    /\ msgs = {}
    /\ exitCode = 0
    /\ prev = [run |-> "none", env |-> EnvInit]
    /\ nruns = 0
    /\ nchanges = 0
    /\ touched = FALSE

\* One run of the script to its exit.
RunCommitUtils ==
    /\ script = "commit-utils"
    /\ pc = "running"
    /\ \E argv \in CommitArgvs :
          LET r == commit_utils_main(CommitConfigs[env.config], argv)
          IN  /\ trace' = <<[step |-> "commit-utils", env |-> env, argv |-> argv,
                             status |-> r.status, stdout |-> r.stdout]>>
              /\ msgs' = r.stderr
              /\ exitCode' = r.status
    /\ pc' = "done"
    /\ UNCHANGED <<env, script, action, ip, muts, prev, nruns, nchanges, touched>>

NextCommitUtils == RunCommitUtils

CommitUtilsSpec == InitCommitUtils /\ [][NextCommitUtils]_vars

\* ================================================================ claims
Last(t) == t[Len(t)]

SuccessMsg == "Test completed successfully"

LibRun == script = "lib"

\* The steps of the run other than the informational ones.
Executed ==
    SelectSeq(StepNames(trace),
              LAMBDA n : n \notin {"check_environment", "print_success"})

\* C1 (stated as claimed): a run of `full` that prints the success message
\* has executed, in this order, the environment check, provisioning,
\* integration, verification, the hook-acceptance test and the
\* workflow-artifact test.
C1_FullRunsSixSteps ==
    (LibRun /\ action = "full" /\ SuccessMsg \in msgs) =>
        Executed = <<"check_requirements", "setup_project", "integrate_booster",
                     "verify_integration", "test_branch_validation",
                     "test_github_actions">>

\* C2: in a run, a step that ended fatally (sys.exit or an uncaught error)
\* is the last step of the run: no later step is started, the process has
\* ended and the success message is not printed.
C2_NoStepAfterFatal ==
    \A i \in 1..Len(trace) :
        trace[i].outcome \in Fatal =>
            /\ i = Len(trace)
            /\ pc = "done"
            /\ SuccessMsg \notin msgs

C2_Witness ==
    /\ LibRun /\ action = "full" /\ pc = "done"
    /\ Len(trace) = 5
    /\ Last(trace).step = "verify_integration"
    /\ Last(trace).outcome = "raise"

\* C3 (stated as claimed): a run of the library that ends with exit status 0
\* has no step that reported failure (returned False).
C3_ExitZeroOnlyIfAllSucceeded ==
    (LibRun /\ pc = "done" /\ exitCode = 0) =>
        \A i \in 1..Len(trace) : trace[i].outcome # "False"

\* C4 (stated as claimed): an action name that is not in the mapping runs no
\* step and ends the process with the usage-error status 2.
C4_UnknownActionExitsTwo ==
    (LibRun /\ "Unknown action" \in msgs) =>
        /\ trace = <<>>
        /\ muts = <<>>
        /\ exitCode = 2

\* C5 (stated as claimed): none of the 14 action names of the command line
\* takes the "Unknown action" path, and test-github-actions runs the
\* workflow-artifact check.
C5_AllCliActionsMapped ==
    (LibRun /\ action \in CliActions /\ pc = "done") =>
        /\ "Unknown action" \notin msgs
        /\ action = "test-github-actions" =>
               \E i \in 1..Len(trace) : trace[i].step = "test_github_actions"

\* check_requirements has run and passed before step i of the run.
ReqPassedBefore(i) ==
    \E j \in 1..(i - 1) :
        trace[j].step = "check_requirements" /\ trace[j].outcome = "ok"

CleanActions == {"clean", "clean-interactive-test"}

SecondSetupEnded ==
    /\ LibRun /\ action = "setup" /\ pc = "done"
    /\ prev.run = "setup"
    /\ ~touched

\* The run ended in a sys.exit(1) without creating, changing or removing
\* anything.
AbortedUntouched ==
    /\ trace # <<>>
    /\ Last(trace).outcome = "exit1"
    /\ muts = <<>>
    /\ env = prev.env

\* C7 (stated as claimed): the second setup run always aborts with exit 1
\* before any mutation, whatever point the first run reached.
C7_SecondSetupAlwaysAborts == SecondSetupEnded => AbortedUntouched

\* C7 (amended): the second setup run aborts with exit 1 before any mutation
\* and leaves every file as it was, provided the first run got far enough
\* for composer.json to exist.
C7_SecondSetupAbortsOnProject ==
    (SecondSetupEnded /\ prev.env.dir /\ Composer \in prev.env.files)
        => AbortedUntouched

C7_Witness ==
    /\ SecondSetupEnded
    /\ prev.env.dir /\ Composer \in prev.env.files
    /\ prev.env.git = "empty"
    /\ Len(trace) = 3
    /\ Last(trace).step = "setup_project"
    /\ Last(trace).outcome = "exit1"

\* C8 (stated as claimed): in the standalone script, setup_project invoked
\* while the target directory holds a project fails fast and changes
\* nothing.
C8_StandaloneSetupFailsFast ==
    \A i \in 1..Len(trace) :
        (/\ trace[i].step = "te_setup_project"
         /\ trace[i].env.dir
         /\ Composer \in trace[i].env.files)
            => /\ trace[i].outcome = "exit1"
               /\ trace[i].nmut = 0
               /\ ~trace[i].changed

\* The state a step requires, over the environment as it was when the step
\* started.
ProjectAt(e) == e.dir /\ Composer \in e.files
RuntimeAt(e) == e.dir /\ e.ddev = "up"
IntegratedAt(e) == Stamp \in e.files \/ FallbackPair \subseteq e.files

Requires(step, e) ==
    CASE step = "setup_project" -> ~ProjectAt(e)
      [] step = "setup_resume" -> ProjectAt(e)
      [] step \in {"integrate_booster", "verify_integration"} ->
            ProjectAt(e) /\ RuntimeAt(e)
      [] step \in {"test_branch_validation", "test_github_actions"} ->
            ProjectAt(e) /\ IntegratedAt(e)
      [] OTHER -> TRUE

GuardedSteps ==
    {"setup_project", "setup_resume", "integrate_booster", "verify_integration",
     "test_branch_validation", "test_github_actions"}

\* C9: each of the six steps checks its own required state when it starts:
\* whenever that state does not hold at that moment (whatever earlier steps
\* of the run saw), the step exits 1 without any mutating operation.
C9_StepsRecheckPreconditions ==
    \A i \in 1..Len(trace) :
        (trace[i].step \in GuardedSteps /\ ~Requires(trace[i].step, trace[i].env))
            => /\ trace[i].outcome = "exit1"
               /\ trace[i].nmut = 0
               /\ ~trace[i].changed

\* In a run of `full`, integrate_booster found its state, the environment
\* was then changed by others, and verify_integration no longer found it.
C9_Witness ==
    /\ LibRun /\ action = "full" /\ touched
    /\ Len(trace) = 5
    /\ trace[4].step = "integrate_booster"
    /\ Requires("integrate_booster", trace[4].env)
    /\ trace[4].outcome = "True"
    /\ trace[5].step = "verify_integration"
    /\ ~Requires("verify_integration", trace[5].env)
    /\ trace[5].outcome = "exit1"

HooksAt(e) ==
    e.git # "none" /\ \A h \in Range(expected_hooks) : e.hooks[h] = "file"

VersionAt(e) ==
    IF Stamp \in e.files /\ e.stampReadable
    THEN [some |-> TRUE, val |-> Strip(e.stamp)]
    ELSE [some |-> FALSE, val |-> <<>>]

\* C10: every answer a step got from the StateDetector is the one the
\* environment determined when the step ran, never an earlier one.
C10_NoCachedSnapshot ==
    \A i \in 1..Len(trace) :
        LET o == trace[i].obs
            e == trace[i].env
        IN  /\ "proj" \in DOMAIN o => o.proj = ProjectAt(e)
            /\ "ddev" \in DOMAIN o => o.ddev = RuntimeAt(e)
            /\ "integ" \in DOMAIN o => o.integ = IntegratedAt(e)
            /\ "hooks" \in DOMAIN o => o.hooks = HooksAt(e)
            /\ "version" \in DOMAIN o => o.version = VersionAt(e)

\* Two calls of the same predicate in one process, with a change by others
\* in between, gave different answers.
C10_Witness ==
    /\ touched
    /\ \E i, j \in 1..Len(trace) :
          /\ i < j
          /\ "ddev" \in DOMAIN trace[i].obs
          /\ "ddev" \in DOMAIN trace[j].obs
          /\ trace[i].obs.ddev
          /\ ~trace[j].obs.ddev
          /\ "proj" \in DOMAIN trace[j].obs
          /\ trace[j].obs.proj

\* The call of `name` recorded by the detector specification, if any.
Called(name) == trace # <<>> /\ trace[1].step = name

\* C11: is_project_created is true exactly when the target directory exists
\* and holds composer.json, whatever else (version stamp, hook files, .git)
\* is or is not there.
C11_ProjectCreatedIffManifest ==
    Called("is_project_created") =>
        trace[1].obs.proj = (trace[1].env.dir /\ Composer \in trace[1].env.files)

\* Stamp, fallback pair and hooks all present, composer.json not: false.
C11_Witness ==
    /\ Called("is_project_created")
    /\ trace[1].env.dir
    /\ ({Stamp} \cup FallbackPair) \subseteq trace[1].env.files
    /\ trace[1].env.hooks = AllHooks
    /\ Composer \notin trace[1].env.files
    /\ ~trace[1].obs.proj

\* Some indicator token occurs in the lower-cased text.
HasIndicator(text) ==
    \E k \in 1..Len(running_indicators) : Contains(Lower(text), running_indicators[k])

\* C12: is_ddev_running is false, with no command spawned, when the target
\* directory does not exist; false when the status command cannot be run or
\* exits non-zero; and when it exits 0, true exactly when the lower-cased
\* output contains one of the indicator tokens.
C12_DdevRunningFromStatus ==
    Called("is_ddev_running") =>
        LET e == trace[1].env
            st == DdevStatus[e.ddev]
            v == trace[1].obs.ddev
        IN  /\ ~e.dir => (~v /\ trace[1].cmds = <<>>)
            /\ (e.dir /\ st.raises) => ~v
            /\ (e.dir /\ ~st.raises /\ st.returncode # 0) => ~v
            /\ (e.dir /\ ~st.raises /\ st.returncode = 0) => (v = HasIndicator(st.stdout))

\* Exit 0 and an indicator printed in capitals: true.
C12_Witness ==
    /\ Called("is_ddev_running")
    /\ trace[1].env.dir
    /\ DdevStatus[trace[1].env.ddev].returncode = 0
    /\ DdevStatus[trace[1].env.ddev].stdout = <<"S", "E", "R", "V", "I", "C", "E">>
    /\ trace[1].cmds = <<"ddev status">>
    /\ trace[1].obs.ddev

\* C13: is_booster_integrated is true whenever .booster-version exists,
\* whichever hook files exist; without it, it is true exactly when both
\* files of the fallback pair exist.
C13_IntegratedStampThenPair ==
    Called("is_booster_integrated") =>
        LET F == trace[1].env.files
            v == trace[1].obs.integ
        IN  /\ Stamp \in F => v
            /\ Stamp \notin F => (v = (\A f \in FallbackPair : f \in F))

\* No stamp and one file of the pair alone: false.
C13_Witness ==
    /\ Called("is_booster_integrated")
    /\ Stamp \notin trace[1].env.files
    /\ Cardinality(FallbackPair \cap trace[1].env.files) = 1
    /\ ~trace[1].obs.integ

\* C14: has_git_hooks is true exactly when .git/hooks exists and each of
\* commit-msg, pre-commit and pre-push is a regular file in it.
C14_HooksAllRegularFiles ==
    Called("has_git_hooks") =>
        LET e == trace[1].env
        IN  trace[1].obs.hooks =
                (/\ e.git # "none"
                 /\ e.hooks["commit-msg"] = "file"
                 /\ e.hooks["pre-commit"] = "file"
                 /\ e.hooks["pre-push"] = "file")

\* Two regular files and one entry that is a directory: false.
C14_Witness ==
    /\ Called("has_git_hooks")
    /\ trace[1].env.hooks["commit-msg"] = "file"
    /\ trace[1].env.hooks["pre-commit"] = "file"
    /\ trace[1].env.hooks["pre-push"] = "dir"
    /\ ~trace[1].obs.hooks

AllWhitespace(t) == \A i \in 1..Len(t) : t[i] \in Whitespace

\* v is t without its leading and trailing whitespace.
IsStripped(v, t) ==
    /\ \E a, b \in 0..Len(t) :
          /\ a + b <= Len(t)
          /\ v = SubSeq(t, a + 1, Len(t) - b)
          /\ AllWhitespace(SubSeq(t, 1, a))
          /\ AllWhitespace(SubSeq(t, Len(t) - b + 1, Len(t)))
    /\ v # <<>> => (v[1] \notin Whitespace /\ v[Len(v)] \notin Whitespace)

\* C15: get_integrated_version returns the stripped content of the stamp
\* when the stamp exists and can be read, and none when the stamp is absent
\* or reading it fails; it always returns.
C15_VersionOrNone ==
    Called("get_integrated_version") =>
        LET e == trace[1].env
            v == trace[1].obs.version
        IN  IF Stamp \in e.files /\ e.stampReadable
            THEN v.some /\ IsStripped(v.val, e.stamp)
            ELSE ~v.some

\* The stamp exists with text in it and reading it fails: none.
C15_Witness ==
    /\ Called("get_integrated_version")
    /\ Stamp \in trace[1].env.files
    /\ ~trace[1].env.stampReadable
    /\ trace[1].env.stamp # <<>>
    /\ ~trace[1].obs.version.some

\* C16: check_requirements reports exactly the required commands that are
\* not available, all of them, and exits 1 exactly when that list is not
\* empty or `docker version` fails or `ddev version` fails; whether composer
\* is on the host makes no difference.
C16_RequirementsAllMissing ==
    Called("check_requirements") =>
        LET a == trace[1].args
            m == trace[1].obs.missing
            bad == Range(m) # {} \/ a.dockerRc # 0 \/ a.ddevRc # 0
        IN  /\ Range(m) = {"ddev", "git"} \ a.avail
            /\ Len(m) = Cardinality(Range(m))
            /\ trace[1].outcome = IF bad THEN "exit1" ELSE "ok"
            /\ trace[1].nmut = 0

\* Only composer on the host: both required commands reported, exit 1.
C16_Witness ==
    /\ Called("check_requirements")
    /\ trace[1].args.avail = {"composer"}
    /\ trace[1].obs.missing = <<"ddev", "git">>
    /\ trace[1].outcome = "exit1"

\* The part of the environment that scaffolding and version control write.
Scaffold(e) ==
    [dir |-> e.dir, files |-> e.files, git |-> e.git, branch |-> e.branch,
     staged |-> e.staged, tcommitted |-> e.tcommitted, hooks |-> e.hooks,
     stamp |-> e.stamp]

\* The run of `setup-resume` has called setup_resume (its last step).
ResumeCalled ==
    /\ LibRun /\ action = "setup-resume"
    /\ trace # <<>>
    /\ Last(trace).step = "setup_resume"

\* C17: setup_resume exits 1 without a project; with one, it issues no
\* command (beyond the status query of is_ddev_running) when the runtime is
\* up and exactly one, ddev start, when it is not; it never scaffolds or
\* touches version control; once it has started the runtime the runtime is
\* up, so that calling it again does nothing.
C17_ResumeStartsOnlyWhenDown ==
    ResumeCalled =>
        LET e == Last(trace).env
            out == Last(trace).outcome
        IN  /\ ~ProjectAt(e) => (out = "exit1" /\ muts = <<>> /\ env = e)
            /\ (ProjectAt(e) /\ RuntimeAt(e)) => (out = "ok" /\ muts = <<>> /\ env = e)
            /\ (ProjectAt(e) /\ ~RuntimeAt(e)) =>
                   /\ muts = <<"ddev start">>
                   /\ out = "ok" => RuntimeAt(env)
            /\ Scaffold(env) = Scaffold(e)

\* The second of two consecutive runs: the first resumed or set up the
\* project, the second found the runtime up and did nothing.
C17_Witness ==
    /\ ResumeCalled
    /\ nruns = 2 /\ ~touched
    /\ ProjectAt(Last(trace).env) /\ RuntimeAt(Last(trace).env)
    /\ Last(trace).outcome = "ok"
    /\ muts = <<>>
    /\ env = prev.env

IntegrateSteps == {"integrate_booster", "test_interactive_mode_project"}

\* C18: integrate_booster invokes the integration script only if
\* is_project_created and is_ddev_running both held when it started; if
\* either did not, it ends the process with sys.exit(1) and nothing is
\* invoked.
C18_ScriptOnlyOnReadyProject ==
    \A i \in 1..Len(trace) :
        LET t == trace[i]
            ready == ProjectAt(t.env) /\ RuntimeAt(t.env)
        IN  /\ (t.step \in IntegrateSteps /\ t.nmut > 0) => ready
            /\ (t.step = "integrate_booster" /\ ~ready) =>
                   (t.outcome = "exit1" /\ t.nmut = 0 /\ ~t.changed)

\* A project whose runtime answers the status query with exit 0 and no
\* indicator: integrate_booster exits 1.
C18_Witness ==
    /\ trace # <<>>
    /\ Last(trace).step = "integrate_booster"
    /\ ProjectAt(Last(trace).env)
    /\ Last(trace).env.ddev = "silent"
    /\ Last(trace).outcome = "exit1"
    /\ pc = "done"

ModeFlags == {"-I", "-N"}

\* C19: with its preconditions holding, integrate_booster invokes the script
\* exactly once, already integrated or not (then with a warning), with both
\* overrides set and exactly one mode flag, -I when interactive and -N
\* otherwise; it returns True when the script exits 0 and False, the process
\* going on, when it fails.
C19_IntegrateInvokesOnce ==
    \A i \in 1..Len(trace) :
        LET t == trace[i]
        IN  (t.step \in IntegrateSteps /\ ProjectAt(t.env) /\ RuntimeAt(t.env)) =>
                /\ t.nmut = 1
                /\ Len(t.obs.spawned) = 1
                /\ LET c == t.obs.spawned[1]
                       flags == {k \in 1..Len(c.argv) : c.argv[k] \in ModeFlags}
                   IN  /\ {"BOOSTER_LOCAL_DEV", "BOOSTER_LOCAL_PATH"} \subseteq c.overrides
                       /\ Cardinality(flags) = 1
                       /\ \A k \in flags :
                             c.argv[k] = IF t.obs.interactive_mode THEN "-I" ELSE "-N"
                       /\ t.outcome = IF c.returncode = 0 THEN "True" ELSE "False"
                /\ t.obs.integ = IntegratedAt(t.env)
                /\ t.obs.integ => "Booster already appears to be integrated" \in msgs
                /\ ip > i

\* Already integrated, the script fails: invoked once, False returned, and
\* the run has gone on to its normal end.
C19_Witness ==
    /\ LibRun /\ action = "integrate" /\ pc = "done"
    /\ Len(trace) = 3
    /\ trace[3].step = "integrate_booster"
    /\ IntegratedAt(trace[3].env)
    /\ Len(trace[3].obs.spawned) = 1
    /\ trace[3].outcome = "False"

\* C20: verify_integration exits 1 when the project or the runtime is not
\* there; with both, the missing list is exactly the absent paths of the
\* 10-entry manifest, and when it is not empty the step exits 1 without
\* having run any tool command.
C20_VerifyReportsAllMissing ==
    \A i \in 1..Len(trace) :
        LET t == trace[i]
            absent == {f \in Range(expected_files) : f \notin t.env.files}
        IN  t.step = "verify_integration" =>
                /\ Cardinality(Range(expected_files)) = 10
                /\ ~(ProjectAt(t.env) /\ RuntimeAt(t.env)) => t.outcome = "exit1"
                /\ (ProjectAt(t.env) /\ RuntimeAt(t.env)) =>
                       /\ Range(t.obs.missing) = absent
                       /\ Len(t.obs.missing) = Cardinality(absent)
                       /\ absent # {} =>
                              /\ t.outcome = "exit1"
                              /\ t.obs.tools = <<>>
                              /\ t.nmut = 0
                       /\ absent = {} => t.obs.tools # <<>>

\* Project and runtime there, every manifest path absent: all ten reported.
C20_Witness ==
    /\ trace # <<>>
    /\ Last(trace).step = "verify_integration"
    /\ ProjectAt(Last(trace).env) /\ RuntimeAt(Last(trace).env)
    /\ Len(Last(trace).obs.missing) = 10
    /\ Last(trace).outcome = "exit1"

\* ---- C21
\* C21: _verify_renovate_config returns normally for every renovate.json that
\* parses as JSON, whatever is missing from it, and ends the process with
\* status 1 exactly when the file is absent or does not parse.
C21_RenovateOnlyWarnsOnValidJson ==
    Called("verify_renovate_config") =>
        LET t == trace[1]
            readable == /\ "renovate.json" \in t.env.files
                        /\ RenovateFiles[t.args.renovate].parses
        IN  /\ readable => t.outcome = "ok"
            /\ ~readable => t.outcome = "exit1"

\* ---- C22
\* C22: _switch_to_default_branch checks out master first and main only when
\* master failed; it returns the first name whose checkout succeeded, exits 1
\* when neither did, and never returns an empty name.
C22_DefaultBranchFirstThatSucceeds ==
    Called("switch_to_default_branch") =>
        LET t == trace[1]
        IN  /\ t.cmds[1] = CheckoutMaster
            /\ t.args.masterRc = 0 =>
                  /\ t.cmds = <<CheckoutMaster>>
                  /\ t.outcome = "ok" /\ t.obs.name = "master"
            /\ t.args.masterRc # 0 =>
                  /\ t.cmds = <<CheckoutMaster, CheckoutMain>>
                  /\ t.args.mainRc = 0 => t.outcome = "ok" /\ t.obs.name = "main"
                  /\ t.args.mainRc # 0 => t.outcome = "exit1"
            /\ t.outcome = "ok" => t.obs.name \in {"master", "main"}

C22_Witness ==
    /\ Called("switch_to_default_branch")
    /\ trace[1].args.masterRc # 0 /\ trace[1].args.mainRc = 0
    /\ trace[1].obs.name = "main"
    /\ trace[1].after.branch = "default"

\* ---- C23
\* The command was issued in the call recorded at the head of the trace.
Issued(op) == \E i \in 1..Len(trace[1].cmds) : trace[1].cmds[i] = op

\* The command was issued and the call went on past it.
Passed(op) ==
    \E i \in 1..Len(trace[1].cmds) :
        /\ trace[1].cmds[i] = op
        /\ i < Len(trace[1].cmds) \/ trace[1].outcome = "ok"

OpIndex(op) == CHOOSE i \in 1..Len(HookOps) : HookOps[i] = op

\* C23: the invalid-branch case is started only if the commit on the feature
\* branch exited 0 and its message contains 'Closes: PRJ-123'; when the commit
\* fails or the footer is absent the call ends with exit 1 and nothing of the
\* invalid-branch case has been run.
C23_ValidBranchNeedsCommitAndFooter ==
    Called("test_branch_validation") /\ Issued("git commit valid") =>
        LET t == trace[1]
            commitOk == t.args.failAt # OpIndex("git commit valid")
            footer == Contains(t.args.body, TicketFooter)
        IN  /\ Issued("git checkout -b invalid") => commitOk /\ footer
            /\ ~commitOk \/ ~footer =>
                  /\ t.outcome = "exit1"
                  /\ ~Issued("git checkout -b invalid")
                  /\ ~Issued("git commit invalid")

C23_Witness ==
    /\ Called("test_branch_validation")
    /\ Issued("git commit valid")
    /\ trace[1].args.failAt = 0
    /\ trace[1].args.body = LowerCaseBody
    /\ trace[1].outcome = "exit1"

\* ---- C24
\* C24: once the commit on the invalid branch is attempted, the case passes
\* exactly when that commit exits non-zero: a non-zero exit lets the run go
\* on to the cleanup, an exit of 0 ends it with exit 1 at that point, before
\* 'git add -A' and the final commit.
C24_InvalidBranchPassesIffRejected ==
    Called("test_branch_validation") /\ Issued("git commit invalid") =>
        LET t == trace[1]
        IN  /\ t.args.invalidRc # 0 =>
                  /\ Passed("git commit invalid")
                  /\ Issued("git reset HEAD test_commit2.php")
            /\ t.args.invalidRc = 0 =>
                  /\ t.outcome = "exit1"
                  /\ ~Passed("git commit invalid")
                  /\ ~Issued("git add -A")
                  /\ ~Issued("git commit final")

C24_Witness ==
    /\ Called("test_branch_validation")
    /\ Issued("git commit invalid")
    /\ trace[1].args.invalidRc # 0
    /\ trace[1].outcome = "ok"

C26_HookTestCleansUpOnEveryExit ==
    Called("test_branch_validation") =>
        LET t == trace[1]
        IN  /\ Passed("git checkout -b feature") =>
                  /\ t.after.branch = "default"
                  /\ TestFile1 \notin t.after.staged \cup t.after.files
            /\ Passed("git checkout -b invalid") =>
                  /\ t.after.branch = "default"
                  /\ TestFile2 \notin t.after.staged \cup t.after.files

\* ---- C27
\* C27: test_github_actions returns normally only if the workflows directory,
\* the action directory, php-auto-fix-simple.yml and action.yml exist, both
\* files parse as YAML, and the workflow holds every required token and the
\* reference to ./.github/actions/php-auto-fix; otherwise it exits 1.
C27_WorkflowArtifactsAllChecked ==
    Called("test_github_actions") =>
        LET t == trace[1]
            text == WorkflowContents[t.args.content]
            sound == /\ {WorkflowsDir, ActionsDir, WorkflowFile, ActionFile}
                            \subseteq t.env.files
                     /\ t.args.wfYaml /\ t.args.actYaml
                     /\ \A i \in 1..Len(required_content) :
                            Contains(text, required_content[i])
                     /\ Contains(text, ActionReference)
        IN  /\ t.outcome = "ok" => sound
            /\ ~sound => t.outcome = "exit1"

\* ---- C28
\* C28: clean_environment on a target directory that does not exist changes
\* nothing, spawns no process (no status query, no stop, no delete), logs at
\* the info level only and returns normally.
C28_CleanWithoutDirectoryIsNoOp ==
    Called("clean_environment") /\ ~trace[1].env.dir =>
        LET t == trace[1]
        IN  /\ t.after = t.env
            /\ t.cmds = <<>>
            /\ t.obs.queries = <<>>
            /\ t.obs.levels = {"info"}
            /\ t.outcome = "ok"

\* No directory while the runtime would answer that it is up.
C28_Witness ==
    /\ Called("clean_environment")
    /\ ~trace[1].env.dir
    /\ trace[1].env.ddev = "up"
    /\ trace[1].outcome = "ok"

\* ---- C29
\* C29: when the target directory exists, clean_environment removes it
\* whether or not the runtime is up and whether `ddev stop` or `ddev delete`
\* succeed or fail; it returns normally, and afterwards the directory is gone,
\* is_project_created, is_booster_integrated and has_git_hooks are false, and
\* setup_project does not refuse.
C29_CleanAlwaysRemovesDirectory ==
    Called("clean_environment") /\ trace[1].env.dir =>
        LET t == trace[1]
        IN  /\ t.outcome = "ok"
            /\ Last(t.cmds) = "rmtree"
            /\ ~t.after.dir
            /\ ~is_project_created(t.after)
            /\ ~is_booster_integrated(t.after)
            /\ ~has_git_hooks(t.after)
            /\ \A ptype \in ProjectTypes :
                  setup_project(t.after, ptype, 0).outcome = "ok"

\* An integrated project with hooks, the runtime up, and `ddev stop` failing.
C29_Witness ==
    /\ Called("clean_environment")
    /\ is_project_created(trace[1].env)
    /\ is_booster_integrated(trace[1].env)
    /\ has_git_hooks(trace[1].env)
    /\ trace[1].obs.ddev
    /\ trace[1].args.stopRc # 0
    /\ ~trace[1].after.dir

\* ---- C30
\* C30 (as stated): show_status changes nothing, makes no call but the status
\* query, never exits with an error, and prints the booster version exactly
\* when get_integrated_version returns a value.
C30_StatusPrintsVersionWhenReturned ==
    Called("show_status") =>
        LET t == trace[1]
        IN  /\ t.after = t.env
            /\ t.cmds = <<>>
            /\ t.outcome = "ok"
            /\ ("Booster version" \in t.msgs) = t.obs.version.some

\* C30 (amended): show_status changes nothing, makes no call but the status
\* query, never exits with an error, and prints the booster version exactly
\* when get_integrated_version returns a text that is not empty.
C30_StatusPrintsNonEmptyVersion ==
    Called("show_status") =>
        LET t == trace[1]
        IN  /\ t.after = t.env
            /\ t.cmds = <<>>
            /\ t.obs.queries = is_ddev_running_cmds(t.env)
            /\ t.outcome = "ok"
            /\ ("Booster version" \in t.msgs) =
                  (t.obs.version.some /\ t.obs.version.val # <<>>)

\* A stamp holding only whitespace: a value is returned, nothing is printed.
C30_Witness ==
    /\ Called("show_status")
    /\ trace[1].env.stamp # <<>>
    /\ trace[1].obs.version.some
    /\ trace[1].obs.version.val = <<>>
    /\ "Booster version" \notin trace[1].msgs

\* ---- C31
\* The run of commit-utils.py recorded in the trace.
Ran == script = "commit-utils" /\ trace # <<>>

UsageError(argv) ==
    \/ Len(argv) = 0
    \/ argv[1] \notin {"--need-ticket", "--footer-label", "--extract-ticket"}
    \/ argv[1] = "--extract-ticket" /\ Len(argv) = 1

\* C31: commit-utils.py exits with status 2 on every usage error (no command,
\* unknown command, --extract-ticket without a branch name), whatever the
\* state of the branch-validation config file.
C31_UsageErrorsExitTwo ==
    Ran /\ UsageError(trace[1].argv) => trace[1].status = 2

\* ---- C32
\* t is PREFIX-PATTERN under the config c: an alternative of the prefix in any
\* letter case, a dash, and digits as many as the number pattern takes.
IsTicket(t, c) ==
    /\ c.number.compiles
    /\ \E k \in 1..Len(c.prefix) :
          LET n == Len(c.prefix[k])
          IN  /\ Len(t) >= n + 1 + c.number.min
              /\ c.number.more \/ Len(t) = n + 1 + c.number.min
              /\ Lower(SubSeq(t, 1, n)) = Lower(c.prefix[k])
              /\ t[n + 1] = "-"
              /\ \A j \in (n + 2)..Len(t) : t[j] \in TicketDigits

\* The positions of branch at which a ticket of length n starts.
TicketsIn(branch, c) ==
    {x \in (1..Len(branch)) \X (1..Len(branch)) :
        /\ x[1] + x[2] - 1 <= Len(branch)
        /\ IsTicket(SubSeq(branch, x[1], x[1] + x[2] - 1), c)}

\* C32: for --extract-ticket <branch> with a loadable config, a ticket is
\* required exactly when ticketIdPrefix and ticketNumberPattern are both
\* configured; when it is not required the run exits 0 and prints nothing;
\* when it is required the run prints the first match of (PREFIX)-PATTERN in
\* the branch name and exits 0, and exits 1 printing nothing when the branch
\* name holds no match.
C32_ExtractTicketFirstMatch ==
    (/\ Ran
     /\ ~load_config(CommitConfigs[trace[1].env.config]).raises
     /\ Len(trace[1].argv) = 2
     /\ trace[1].argv[1] = "--extract-ticket"
     /\ trace[1].argv[2] # <<>>) =>
        LET t == trace[1]
            c == CommitConfigs[t.env.config]
            branch == t.argv[2]
            required == {"ticketIdPrefix", "ticketNumberPattern"} \subseteq c.keys
            found == TicketsIn(branch, c)
        IN  /\ ~required => t.status = 0 /\ t.stdout = <<>>
            /\ required /\ found = {} => t.status = 1 /\ t.stdout = <<>>
            /\ required /\ found # {} =>
                  /\ t.status = 0
                  /\ \E x \in found :
                        /\ t.stdout = SubSeq(branch, x[1], x[1] + x[2] - 1)
                        /\ \A y \in found : x[1] <= y[1]
                        /\ \A y \in found : y[1] = x[1] => y[2] <= x[2]

\* Two tickets in the branch name, the first in lower case in the config's
\* second alternative: the first one is printed as it stands in the name.
C32_Witness ==
    /\ Ran
    /\ trace[1].env.config = "tickets"
    /\ trace[1].argv = <<"--extract-ticket", TwoTickets>>
    /\ trace[1].status = 0
    /\ trace[1].stdout = <<"E", "R", "M", "-", "4", "5">>


\* ---- C33
HookStepOrder ==
    << "git checkout default", "git branch -D feature", "git branch -D invalid",
       "git checkout -b feature", "write test_commit.php",
       "git add test_commit.php", "git commit valid",
       "git checkout default",
       "git checkout -b invalid", "write test_commit2.php",
       "git add test_commit2.php", "git commit invalid",
       "git reset HEAD test_commit2.php", "unlink test_commit2.php",
       "git checkout default", "git branch -D feature", "git branch -D invalid",
       "git add -A", "git commit final" >>

StartsWith(long, short) ==
    Len(short) <= Len(long) /\ SubSeq(long, 1, Len(short)) = short

\* C33: the commands of test_branch_validation are issued in the order
\* switch to default, delete leftovers, valid case, switch, invalid case,
\* switch, delete, final commit; a test branch is created only with the default
\* branch checked out; and a deletion that exits non-zero does not end the
\* run: the command after the deletions is issued all the same.
C33_HookStepsInOrder ==
    Called("test_branch_validation") =>
        LET t == trace[1]
            before(op) == RunHookOps(t.env, HookOps, OpIndex(op) - 1)
        IN  /\ StartsWith(HookStepOrder, t.cmds)
            /\ t.outcome = "ok" => t.cmds = HookStepOrder
            /\ \A op \in {"git checkout -b feature", "git checkout -b invalid"} :
                  Issued(op) => before(op).branch = "default"
            /\ t.args.deleteRc # 0 =>
                  /\ Len(t.cmds) >= 2 => Len(t.cmds) >= 4
                  /\ Len(t.cmds) >= 16 => Len(t.cmds) >= 18

C33_Witness ==
    /\ Called("test_branch_validation")
    /\ trace[1].args.deleteRc # 0
    /\ trace[1].env.branch = "feature"
    /\ trace[1].outcome = "ok"
    /\ trace[1].cmds = HookStepOrder


\* ---- C36
GateMsg == "Project not set up or booster not integrated"

\* C36: test_branch_validation and test_github_actions are gated by exactly
\* is_project_created and is_booster_integrated: when either is false the
\* call exits 1 having issued no command and changed nothing; when both are
\* true the call gets past the gate, whatever the runtime and the hooks are.
C36_HookTestsGatedByProjectAndBooster ==
    Called("test_branch_validation") \/ Called("test_github_actions") =>
        LET t == trace[1]
            both == is_project_created(t.env) /\ is_booster_integrated(t.env)
        IN  /\ ~both => /\ t.outcome = "exit1"
                        /\ GateMsg \in t.msgs
                        /\ t.cmds = <<>>
                        /\ t.after = t.env
            /\ both => /\ GateMsg \notin t.msgs
                       /\ Called("test_branch_validation") => t.cmds # <<>>

C36_Witness ==
    /\ Called("test_branch_validation")
    /\ is_project_created(trace[1].env)
    /\ is_booster_integrated(trace[1].env)
    /\ ~has_git_hooks(trace[1].env)
    /\ ~is_ddev_running(trace[1].env)
    /\ trace[1].cmds # <<>>


\* ---- C35
\* C35: each commit the hook tester runs (on the feature branch, on the
\* invalid branch, the final one) gets an environment that is the harness's
\* environment with SKIP_PHPSTAN and SKIP_PSALM set to "1" and every other
\* variable as it was, and the harness's own environment is the same after
\* the call as before.
C35_CommitsSkipStaticAnalysis ==
    Called("test_branch_validation") =>
        LET t == trace[1]
        IN  \A op \in CommitOps :
                Issued(op) =>
                    LET given == t.obs.commit_env[op]
                    IN  /\ DOMAIN given =
                              DOMAIN t.args.environ \cup {"SKIP_PHPSTAN", "SKIP_PSALM"}
                        /\ given["SKIP_PHPSTAN"] = "1"
                        /\ given["SKIP_PSALM"] = "1"
                        /\ \A k \in DOMAIN t.args.environ \ {"SKIP_PHPSTAN", "SKIP_PSALM"} :
                              given[k] = t.args.environ[k]
                        /\ t.obs.environ = t.args.environ

C35_Witness ==
    /\ Called("test_branch_validation")
    /\ "SKIP_PHPSTAN" \in DOMAIN trace[1].args.environ
    /\ trace[1].args.environ["SKIP_PHPSTAN"] = "0"
    /\ \A op \in CommitOps : Issued(op)
    /\ trace[1].obs.environ["SKIP_PHPSTAN"] = "0"


\* ---- C39
\* C39: once both cases have passed and the switch to the default branch and
\* `git add -A` have succeeded, the final commit is run; when it exits
\* non-zero, and it does when there is nothing to commit, the call ends with
\* exit status 1; so a call of test_branch_validation on the state a
\* successful call left behind is never successful.
C39_FinalCommitFailureExitsOne ==
    Called("test_branch_validation") =>
        LET t == trace[1]
            atCommit == RunHookOps(t.env, HookOps, FinalCommit - 1)
        IN  /\ Passed("git add -A") => Issued("git commit final")
            /\ Issued("git commit final") =>
                  /\ t.outcome \in {"ok", "exit1"}
                  /\ t.args.failAt = FinalCommit \/ NothingToCommit(atCommit) =>
                        t.outcome = "exit1"
            /\ t.outcome = "ok" =>
                  \A failAt \in {0} \cup HookFailInputs, body \in CommitBodies,
                     invalidRc \in Rc, deleteRc \in Rc :
                      test_branch_validation(t.after, failAt, body, invalidRc,
                                             deleteRc, t.args.environ).outcome # "ok"

C39_Witness ==
    /\ Called("test_branch_validation")
    /\ trace[1].outcome = "ok"
    /\ LET again == test_branch_validation(trace[1].after, 0, FooterBody, 1, 0,
                                           trace[1].args.environ)
       IN  /\ again.outcome = "exit1"
           /\ Len(again.muts) = Len(HookStepOrder)


\* ---- C34
SymfonySetupOrder ==
    << "mkdir", "ddev config", "ddev start", "composer create-project",
       "composer require webapp", "git init", "git config user.name",
       "git config user.email", "git add .", "git commit" >>

LaravelSetupOrder ==
    << "mkdir", "ddev config", "ddev start", "composer create-project",
       "git init", "git config user.name", "git config user.email",
       "git add .", "git commit" >>

\* C34: with no project present, setup_project creates the directory and
\* then runs: configure runtime, start runtime, scaffold, (symfony) starter
\* dependencies, git init, the two identity settings, stage, initial commit,
\* in that order; the command that fails is the last one run, and a run with
\* a failed command does not end in success nor log that setup is complete.
C34_SetupOrderAndFailFast ==
    Called("setup_project") /\ ~is_project_created(trace[1].env) =>
        LET t == trace[1]
            order == IF t.args.ptype = "symfony" THEN SymfonySetupOrder
                     ELSE LaravelSetupOrder
        IN  /\ StartsWith(order, t.cmds)
            /\ t.args.failAt = 0 => t.cmds = order /\ t.outcome = "ok"
            /\ t.args.failAt # 0 =>
                  /\ Len(t.cmds) = t.args.failAt + 1
                  /\ t.outcome \in Fatal
                  /\ "Project setup complete" \notin t.msgs

C34_Witness ==
    /\ Called("setup_project")
    /\ ~is_project_created(trace[1].env)
    /\ trace[1].args.ptype = "symfony"
    /\ Last(trace[1].cmds) = "composer require webapp"
    /\ trace[1].outcome = "raise"
    /\ is_project_created(trace[1].after)
    /\ trace[1].after.git = "none"


\* ---- C37
StepsOf(names) == {i \in 1..Len(trace) : trace[i].step \in names}

\* C37: in a run of `full`, when the provisioning step finds a project
\* present it ends the run with exit status 1: it is the last step, it
\* issued no command, and neither the integration script, the verifier nor
\* the hook tester is called in that run.
C37_FullNotRerunnable ==
    LibRun /\ action = "full" =>
        \A i \in StepsOf({"setup_project"}) :
            is_project_created(trace[i].env) =>
                /\ trace[i].outcome = "exit1"
                /\ trace[i].nmut = 0
                /\ ~trace[i].changed
                /\ i = Len(trace)
                /\ pc = "done"
                /\ exitCode = 1
                /\ SuccessMsg \notin msgs
                /\ StepsOf({"integrate_booster", "verify_integration",
                            "test_branch_validation", "test_github_actions"}) = {}

C37_Witness ==
    /\ LibRun /\ action = "full" /\ pc = "done"
    /\ Last(trace).step = "setup_project"
    /\ is_project_created(Last(trace).env)
    /\ is_booster_integrated(Last(trace).env)
    /\ exitCode = 1

\* ---- C38
\* C38 (stated as claimed): a run of `full` that prints the success message
\* is a run in which integrate_booster returned True.
C38_SuccessOnlyAfterIntegrationTrue ==
    (LibRun /\ action = "full" /\ SuccessMsg \in msgs) =>
        \E i \in StepsOf({"integrate_booster"}) : trace[i].outcome = "True"


\* ---- C40
\* A project is there but its repository has no commit: what a setup that
\* failed between the scaffolding and the initial commit leaves.
HalfProvisioned(e) == is_project_created(e) /\ e.git # "committed"

\* C40: for every library operation: a command of the repository's
\* initialisation is issued by setup_project only; a repository without a
\* commit gets one only in a setup_project entered with no project present;
\* a project is removed by clean_environment only; and on a half-provisioned
\* project setup_project exits 1 with no command issued while setup_resume
\* issues at most `ddev start` and leaves the repository as it is.  Hence
\* from a half-provisioned project an initialised repository is reached only
\* through a clean followed by a setup.
C40_OnlySetupInitialisesRepository ==
    trace # <<>> /\ script = "detector" /\ {"cmds", "after"} \subseteq DOMAIN trace[1] =>
        LET t == trace[1]
        IN  /\ Range(t.cmds) \cap Range(GitInitCmds) # {} => t.step = "setup_project"
            /\ t.env.git # "committed" /\ t.after.git = "committed" =>
                  t.step = "setup_project" /\ ~is_project_created(t.env)
            /\ is_project_created(t.env) /\ ~is_project_created(t.after) =>
                  t.step = "clean_environment"
            /\ HalfProvisioned(t.env) /\ t.step = "setup_project" =>
                  t.outcome = "exit1" /\ t.cmds = <<>> /\ t.after = t.env
            /\ HalfProvisioned(t.env) /\ t.step = "setup_resume" =>
                  /\ Range(t.cmds) \subseteq {"ddev start"}
                  /\ t.after.git = t.env.git
                  /\ HalfProvisioned(t.after)

C40_Witness ==
    /\ Called("setup_resume")
    /\ HalfProvisioned(trace[1].env)
    /\ trace[1].env.git = "empty"
    /\ trace[1].cmds = <<"ddev start">>
    /\ trace[1].outcome = "ok"
    /\ HalfProvisioned(trace[1].after)

====
